---- MODULE Spec2Model ----
(***************************************************************************)
(* The task execution engine of skyvern/forge/agent.py (ForgeAgent):       *)
(* execute_step, agent_step, the step policy (handle_failed_step,          *)
(* handle_completed_step) and the responder (send_task_response,           *)
(* execute_task_webhook), over one persisted Task and its Steps.           *)
(*                                                                         *)
(* Every await of the code is a suspension point, so an invocation of      *)
(* execute_step is a process with a program counter; each action below is  *)
(* the code between two suspension points that matter to the persisted     *)
(* state.  Spec runs the invocations one after the other (the callers      *)
(* serialize them); SpecConc lets two invocations interleave.  SpecRetry,  *)
(* SpecPolicy, SpecExec, SpecVerdict, SpecArtifacts and SpecChain run the  *)
(* same actions from one running task under the configurations, LLM        *)
(* answers, handler results, artifact failures and caller arguments that   *)
(* the retry policy, the completion policy, the executor loop, the artifact*)
(* captures and the chaining of steps are sensitive to.  SpecUpdate runs   *)
(* update_step on its own.  SpecRun runs a whole task under weak fairness  *)
(* of the invocation, SpecGuard the executor loop with TERMINATE actions   *)
(* behind an early stop.                                                   *)
(***************************************************************************)
EXTENDS Integers, Sequences, FiniteSets, TLC

VARIABLES
    task,        \* the persisted Task row (app.DATABASE)
    steps,       \* the persisted Step rows of the task, step_id = index
    inv,         \* the execute_step invocations: locals and program counter
    browser,     \* app.BROWSER_MANAGER: per-task / per-workflow-run browser
    artifacts,   \* app.ARTIFACT_MANAGER: the artifact types created for the task
    webhook,     \* the webhook endpoint: POSTs attempted, last outcome
    settings,    \* the configuration: SettingsManager.get_settings(), the
                 \* organization's max_steps_per_run, context.max_steps_override
    env          \* what the collaborators may do: LLM answers, handler results,
                 \* faults of the collaborators, faults of the artifact captures

vars == <<task, steps, inv, browser, artifacts, webhook, settings, env>>

----------------------------------------------------------------------------
(* Bounds of the model *)

\* settings.MAX_RETRIES_PER_STEP (configuration)
MAX_RETRIES_PER_STEP == 1
\* settings.MAX_STEPS_PER_RUN (configuration)
MAX_STEPS_PER_RUN == 2
\* Step rows the store may hold (reached only when invocations interleave)
MaxStepRows == 6

Procs == {"p1", "p2"}

----------------------------------------------------------------------------
(* Values *)

None == <<>>
Some(x) == <<x>>

TaskStatus == {"created", "running", "completed", "failed", "terminated"}
StepStatus == {"created", "running", "completed", "failed"}

Click(e)  == [action_type |-> "CLICK", element_id |-> e]
Wait      == [action_type |-> "WAIT", element_id |-> "-"]
Complete  == [action_type |-> "COMPLETE", element_id |-> "-"]
Terminate(r) == [action_type |-> "TERMINATE", element_id |-> "-", reasoning |-> [text |-> r]]

\* the decisive actions with the user-defined errors the LLM reports in them
CompleteWith(errs) ==
    [action_type |-> "COMPLETE", element_id |-> "-", errors |-> errs]
TerminateWith(r, errs) ==
    [action_type |-> "TERMINATE", element_id |-> "-", reasoning |-> [text |-> r],
     errors |-> errs]

\* isinstance(action, WebAction): the variants that carry an element_id
WebAction(a) == a.action_type \in {"CLICK", "INPUT_TEXT", "UPLOAD_FILE", "SELECT_OPTION", "CHECKBOX"}

\* ActionResult: success, javascript_triggered, data
Ok   == [success |-> TRUE, javascript_triggered |-> FALSE, data |-> None]
OkJs == [success |-> TRUE, javascript_triggered |-> TRUE, data |-> None]
Fail == [success |-> FALSE, javascript_triggered |-> FALSE, data |-> None]
OkData(d) == [success |-> TRUE, javascript_triggered |-> FALSE, data |-> Some(d)]

\* what the LLM may answer (json_response["actions"] after parse_actions)
LLMResponses ==
    { <<>>, <<Click("e1")>>, <<Complete>>, <<Terminate("r1")>> }

\* what ActionHandler.handle_action may return
HandlerResults == { <<Fail>>, <<Ok>> }

\* the failure reasons the policy formats: f"Max retries per step ({n})
\* exceeded", f"Max steps per task ({n}) exceeded"
MaxRetriesExceeded(n) == [text |-> "Max retries per step exceeded", n |-> n]
MaxStepsExceeded(n)   == [text |-> "Max steps per task exceeded", n |-> n]

\* a Step row
StepRow(id, order, retry) ==
    [step_id |-> id, order |-> order, retry_index |-> retry,
     status |-> "created", is_last |-> FALSE, output |-> None]

NoStep == [step_id |-> 0, order |-> 0, retry_index |-> 0,
           status |-> "created", is_last |-> FALSE, output |-> None]

\* a call of update_step: its arguments (status "none" and None for an
\* argument left out), the keys of the diff it logs (update_comparison) and
\* the keys it hands to app.DATABASE.update_step (updates)
NoCall ==
    [status |-> "none", output |-> None, is_last |-> None, retry_index |-> None,
     update_comparison |-> {}, updates |-> {}]

\* an idle invocation frame
Idle ==
    [pc |-> "idle", task_status |-> "created", step |-> NoStep,
     api_key |-> FALSE, workflow_run |-> FALSE, close_browser |-> TRUE,
     browser_state |-> "none", next_step |-> 0, llm_actions |-> <<>>,
     actions |-> <<>>,
     aar |-> <<>>, idx |-> 1, elems |-> {}, last_step |-> 0,
     waited |-> FALSE, result |-> "none", failed_to_send_webhook |-> FALSE,
     task_errors |-> <<>>, call |-> NoCall]

----------------------------------------------------------------------------
(* Step and Task methods the agent calls (skyvern.forge.sdk: Step, Task) *)

\* StepStatus graph: created -> running -> {completed, failed}
step_can_update_to(old, new) ==
    \/ old = "created" /\ new = "running"
    \/ old = "running" /\ new \in {"completed", "failed"}

\* Step.validate_update(status, output, is_last): FALSE means it raises
step_validate_update(step, status) ==
    status = "none" \/ step_can_update_to(step.status, status)

\* TaskStatus graph: created -> running -> {completed, failed, terminated}
task_can_update_to(old, new) ==
    \/ old = "created" /\ new = "running"
    \/ old = "running" /\ new \in {"completed", "failed", "terminated"}

\* Task.validate_update(status, ...): FALSE means it raises
task_validate_update(old, status) == task_can_update_to(old, status)

\* Step.is_goal_achieved(): a COMPLETE action with a successful result
is_goal_achieved(step) ==
    /\ step.status = "completed"
    /\ step.output # None
    /\ \E i \in 1..Len(step.output[1].actions_and_results) :
          LET ar == step.output[1].actions_and_results[i] IN
          /\ ar.action.action_type = "COMPLETE"
          /\ \E j \in 1..Len(ar.results) : ar.results[j].success

\* Step.is_terminated(): a TERMINATE action in the output
is_terminated(step) ==
    /\ step.status = "completed"
    /\ step.output # None
    /\ \E i \in 1..Len(step.output[1].actions_and_results) :
          step.output[1].actions_and_results[i].action.action_type = "TERMINATE"

----------------------------------------------------------------------------
(* ForgeAgent helpers *)

\* validate_step_execution without its check of the task status
can_execute_any_task_status(task_status, step, S) ==
    /\ step.status \in {"created", "failed"}
    /\ ~ \E i \in 1..Len(S) : S[i].status = "running"

\* validate_step_execution: TRUE when the step may run, FALSE when it raises
can_execute(task_status, step, S) ==
    LET has_valid_task_status == task_status = "running"
        has_valid_step_status == step.status \in {"created", "failed"}
        has_no_running_steps  == ~ \E i \in 1..Len(S) : S[i].status = "running"
    IN  has_valid_task_status /\ has_valid_step_status /\ has_no_running_steps

\* update_step without the call of validate_update
update_step_unvalidated(step, status) == TRUE

\* update_step, line 869: the update is validated on the Step object in hand
update_step_valid(step, status) == step_validate_update(step, status)

\* update_step addressing the rows by the order of the step, not its step_id
update_step_by_order(S, step, status, output, is_last) ==
    [i \in 1..Len(S) |->
        IF S[i].order = step.order
        THEN [S[i] EXCEPT !.status  = IF status = "none" THEN @ ELSE status,
                          !.output  = IF output = None THEN @ ELSE output,
                          !.is_last = IF is_last = None THEN @ ELSE is_last[1]]
        ELSE S[i]]

\* update_step, lines 870-895: the fields given are written to the row step_id
update_step(S, step, status, output, is_last) ==
    [S EXCEPT ![step.step_id] =
        [@ EXCEPT !.status  = IF status = "none" THEN @ ELSE status,
                  !.output  = IF output = None THEN @ ELSE output,
                  !.is_last = IF is_last = None THEN @ ELSE is_last[1]]]

\* update_step, lines 870-878: the keys of updates, one for each argument
\* that is not None
UpdateKeys(c) ==
    (IF c.status # "none" THEN {"status"} ELSE {}) \cup
    (IF c.output # None THEN {"output"} ELSE {}) \cup
    (IF c.is_last # None THEN {"is_last"} ELSE {}) \cup
    (IF c.retry_index # None THEN {"retry_index"} ELSE {})

\* update_step, lines 879-883: the keys of update_comparison, the updates
\* whose value differs from the field of the Step object in hand
UpdateComparison(step, c) ==
    (IF c.status # "none" /\ step.status # c.status THEN {"status"} ELSE {}) \cup
    (IF c.output # None /\ step.output # c.output THEN {"output"} ELSE {}) \cup
    (IF c.is_last # None /\ step.is_last # c.is_last[1] THEN {"is_last"} ELSE {}) \cup
    (IF c.retry_index # None /\ step.retry_index # c.retry_index[1]
     THEN {"retry_index"} ELSE {})

\* app.DATABASE.update_step(step_id, **updates), lines 890-895: the row gets
\* the value of every key of updates
database_update_step(S, step_id, c) ==
    [S EXCEPT ![step_id] =
        [@ EXCEPT !.status  = IF "status" \in UpdateKeys(c) THEN c.status ELSE @,
                  !.output  = IF "output" \in UpdateKeys(c) THEN c.output ELSE @,
                  !.is_last = IF "is_last" \in UpdateKeys(c) THEN c.is_last[1] ELSE @,
                  !.retry_index = IF "retry_index" \in UpdateKeys(c)
                                  THEN c.retry_index[1] ELSE @]]

\* update_task, line 904: the update is validated on the Task object in hand
update_task_valid(task_status, status) == task_validate_update(task_status, status)

\* update_task, lines 905-922: status, extracted_information, failure_reason
update_task(T, status, extracted_information, failure_reason) ==
    [T EXCEPT !.status = status,
              !.extracted_information = IF extracted_information = None THEN @ ELSE extracted_information,
              !.failure_reason = IF failure_reason = None THEN @ ELSE failure_reason]

\* DetailedAgentStepOutput.extract_errors(): the user-defined errors of the
\* actions of actions_and_results, in their order
RECURSIVE extract_errors(_)
extract_errors(aar) ==
    IF aar = <<>> THEN <<>>
    ELSE (IF "errors" \in DOMAIN Head(aar).action THEN Head(aar).action.errors
          ELSE <<>>) \o extract_errors(Tail(aar))

\* DetailedAgentStepOutput.to_agent_step_output()
to_agent_step_output(aar) == Some([actions_and_results |-> aar])

RECURSIVE SelectNot(_, _)
SelectNot(s, ty) ==
    IF s = <<>> THEN <<>>
    ELSE IF Head(s).action_type = ty THEN SelectNot(Tail(s), ty)
         ELSE <<Head(s)>> \o SelectNot(Tail(s), ty)

\* the pruning that drops every WAIT, also from a list of WAITs only
PruneAllWaits(actions) == SelectNot(actions, "WAIT")

\* agent_step, lines 386-392: WAITs are dropped when other actions exist
PruneWaits(actions) ==
    LET wait_actions_len == Len(actions) - Len(SelectNot(actions, "WAIT")) IN
    IF Len(actions) > 1 /\ wait_actions_len > 0 /\ wait_actions_len < Len(actions)
    THEN SelectNot(actions, "WAIT")
    ELSE actions

\* handle_completed_step, lines 986-992: a or b or c on optional ints
EffectiveMaxSteps(override, org_max, settings_max) ==
    IF override # None /\ override[1] # 0 THEN override[1]
    ELSE IF org_max # None /\ org_max[1] # 0 THEN org_max[1]
    ELSE settings_max

\* the (action, result) positions of a step output that hold a successful
\* result of a COMPLETE action
SuccessfulCompletes(aar) ==
    {ij \in {<<i, j>> : i \in 1..Len(aar), j \in 1..3} :
        /\ aar[ij[1]].action.action_type = "COMPLETE"
        /\ ij[2] <= Len(aar[ij[1]].results)
        /\ aar[ij[1]].results[ij[2]].success}

\* the first position of a set of positions, in the order of the two loops
FirstPosition(H) ==
    CHOOSE ij \in H : \A kl \in H :
        ij[1] < kl[1] \/ (ij[1] = kl[1] /\ ij[2] <= kl[2])

\* get_extracted_information_for_task: the steps in reverse; in the first
\* completed step that has one, the data of the first successful result of
\* a COMPLETE action
RECURSIVE get_extracted_information_for_task(_, _)
get_extracted_information_for_task(S, i) ==
    IF i = 0 THEN None
    ELSE IF S[i].status # "completed" \/ S[i].output = None
    THEN get_extracted_information_for_task(S, i - 1)
    ELSE LET aar == S[i].output[1].actions_and_results
             H == SuccessfulCompletes(aar)
         IN  IF H = {} THEN get_extracted_information_for_task(S, i - 1)
             ELSE aar[FirstPosition(H)[1]].results[FirstPosition(H)[2]].data

\* get_failure_reason_for_task: the steps in reverse; in the first completed
\* step that has one, the reasoning of the first TERMINATE action
RECURSIVE get_failure_reason_for_task(_, _)
get_failure_reason_for_task(S, i) ==
    IF i = 0 THEN None
    ELSE IF S[i].status # "completed" \/ S[i].output = None
    THEN get_failure_reason_for_task(S, i - 1)
    ELSE LET aar == S[i].output[1].actions_and_results
             T == {k \in 1..Len(aar) : aar[k].action.action_type = "TERMINATE"}
         IN  IF T = {} THEN get_failure_reason_for_task(S, i - 1)
             ELSE Some(aar[CHOOSE k \in T : \A l \in T : k <= l].action.reasoning)

----------------------------------------------------------------------------
(* Initial states and task creation *)

TaskRow(status, wf, hook, goal) ==
    [status |-> status, workflow_run_id |-> wf, webhook_callback_url |-> hook,
     navigation_goal |-> goal, extracted_information |-> None,
     failure_reason |-> None, errors |-> <<>>]

NoTask == TaskRow("none", FALSE, FALSE, FALSE)

\* The store holds no task yet, or a Task row in status created with any
\* combination of its optional fields (execute_step takes any Task).
Init ==
    /\ task \in {NoTask} \cup
               {TaskRow("created", wf, hook, goal) :
                   wf \in BOOLEAN, hook \in BOOLEAN, goal \in BOOLEAN}
    /\ steps = <<>>
    /\ inv = [p \in Procs |-> Idle]
    /\ browser = [task |-> "none", workflow_run |-> "none", video |-> {}]
    /\ artifacts = {}
    /\ webhook = [posts |-> 0, last |-> "none"]
    /\ settings \in [execute_all_steps : BOOLEAN,
                     MAX_RETRIES_PER_STEP : {MAX_RETRIES_PER_STEP},
                     MAX_STEPS_PER_RUN : {MAX_STEPS_PER_RUN},
                     org_max_steps_per_run : {None},
                     max_steps_override : {None}]
    /\ env = [responses |-> LLMResponses, results |-> HandlerResults, faults |-> TRUE,
              artifact_faults |-> FALSE]

\* create_task: a standalone task from a TaskRequest
create_task ==
    /\ task.status = "none"
    /\ \E hook \in BOOLEAN, goal \in BOOLEAN :
          task' = TaskRow("created", FALSE, hook, goal)
    /\ UNCHANGED <<steps, inv, browser, artifacts, webhook, settings, env>>

\* create_task_and_step_from_block: the task of a workflow block, created
\* without webhook, set running, with its step (order 0, retry 0)
create_task_and_step_from_block ==
    /\ task.status = "none"
    /\ \E goal \in BOOLEAN :
          task' = TaskRow("running", TRUE, FALSE, goal)
    /\ steps' = <<StepRow(1, 0, 0)>>
    /\ \E block_has_url \in BOOLEAN :
          browser' = IF block_has_url THEN browser
                     ELSE [browser EXCEPT !.workflow_run = "open"]
    /\ UNCHANGED <<inv, artifacts, webhook, settings, env>>

\* The caller of a standalone task sets it running and creates its first
\* step (order 0, retry 0) before the first execute_step.
StartTask ==
    /\ task.status = "created"
    /\ steps = <<>>
    /\ task' = [task EXCEPT !.status = "running"]
    /\ steps' = <<StepRow(1, 0, 0)>>
    /\ UNCHANGED <<inv, browser, artifacts, webhook, settings, env>>

----------------------------------------------------------------------------
(* execute_step *)

\* execute_step returns (step, detailed_output, next_step)
Returned(f) == [Idle EXCEPT !.result = "returned", !.step = f.step, !.aar = f.aar,
                            !.next_step = f.next_step, !.api_key = f.api_key]
Raised(f)   == [Idle EXCEPT !.result = "raised"]

\* the frame of execute_step(organization, task, step, api_key, workflow_run,
\* close_browser_on_completion) at its first line
Frame(T, step, api_key, workflow_run, close) ==
    [Idle EXCEPT !.pc = "validate", !.task_status = T.status,
                 !.task_errors = T.errors, !.step = step,
                 !.api_key = api_key, !.workflow_run = workflow_run,
                 !.close_browser = close]

\* lines 264-277: return await self.execute_step(organization, task,
\* next_step, api_key=api_key): workflow_run and
\* close_browser_on_completion take their defaults
Recurse(f, next_step) ==
    Frame([status |-> f.task_status, errors |-> f.task_errors], next_step,
          f.api_key, FALSE, TRUE)

\* An outermost call of execute_step up to line 209: the caller hands in the
\* task and one of its steps as persisted, with an api_key or none and a
\* close_browser_on_completion; a workflow caller hands in its workflow run.
\* validate_step_execution reads the persisted steps and raises when the
\* step cannot run.
execute_step(p, Keys, Closes) ==
    /\ inv[p].pc = "idle"
    /\ task.status # "none"
    /\ \E i \in 1..Len(steps), api_key \in Keys, close \in Closes :
          LET f == Frame(task, steps[i], api_key, task.workflow_run_id, close) IN
          inv' = [inv EXCEPT ![p] =
                    IF can_execute(f.task_status, f.step, steps)
                    THEN [f EXCEPT !.pc = "init"]
                    ELSE Raised(f)]
    /\ UNCHANGED <<task, steps, browser, artifacts, webhook, settings, env>>

\* line 209 in a recursive call (lines 264-277): validate_step_execution
\* reads the persisted steps and raises when the step cannot run
validate_step_execution(p) ==
    /\ inv[p].pc = "validate"
    /\ inv' = [inv EXCEPT ![p] =
                 IF can_execute(inv[p].task_status, inv[p].step, steps)
                 THEN [@ EXCEPT !.pc = "init"]
                 ELSE Raised(@)]
    /\ UNCHANGED <<task, steps, browser, artifacts, webhook, settings, env>>

\* whether the capture or the creation of an artifact succeeds
ArtifactReturns == IF env.artifact_faults THEN BOOLEAN ELSE {TRUE}

\* _initialize_execution_state: the browser of the workflow run or of the
\* task; the RECORDING artifact when the browser has none yet, and an
\* exception of its creation leaves execute_step
initialize_execution_state(p) ==
    /\ inv[p].pc = "init"
    /\ LET kind == IF inv[p].workflow_run THEN "workflow_run" ELSE "task" IN
       IF kind \in browser.video
       THEN /\ browser' = [browser EXCEPT ![kind] = "open"]
            /\ inv' = [inv EXCEPT ![p].pc = "agent_step", ![p].browser_state = kind]
            /\ UNCHANGED artifacts
       ELSE \E created \in ArtifactReturns :
              IF created
              THEN /\ browser' = [browser EXCEPT ![kind] = "open", !.video = @ \cup {kind}]
                   /\ inv' = [inv EXCEPT ![p].pc = "agent_step", ![p].browser_state = kind]
                   /\ artifacts' = artifacts \cup {"RECORDING"}
              ELSE /\ browser' = [browser EXCEPT ![kind] = "open"]
                   /\ inv' = [inv EXCEPT ![p] = Raised(@)]
                   /\ UNCHANGED artifacts
    /\ UNCHANGED <<task, steps, webhook, settings, env>>

----------------------------------------------------------------------------
(* agent_step *)

\* update_step inside agent_step's try block: the persistence layer may fail
\* (db_ok = FALSE) and the validation may raise; TRUE when the row is written
UpdateStepSucceeds(step, status, db_ok) == db_ok /\ update_step_valid(step, status)

\* whether a collaborator call returns (TRUE) or raises (FALSE)
Returns == IF env.faults THEN BOOLEAN ELSE {TRUE}

\* lines 316-324: the step is marked running
agent_step_start(p) ==
    /\ inv[p].pc = "agent_step"
    /\ \E db_ok \in Returns :
          IF UpdateStepSucceeds(inv[p].step, "running", db_ok)
          THEN /\ steps' = update_step(steps, inv[p].step, "running", None, None)
               /\ inv' = [inv EXCEPT ![p].pc = "build",
                                      ![p].step = steps'[inv[p].step.step_id]]
          ELSE /\ inv' = [inv EXCEPT ![p].pc = "except"]
               /\ UNCHANGED steps
    /\ UNCHANGED <<task, browser, artifacts, webhook, settings, env>>

\* the artifacts of _build_and_record_step_prompt in the order of creation
PromptArtifacts ==
    <<"HTML_SCRAPE", "VISIBLE_ELEMENTS_ID_XPATH_MAP", "VISIBLE_ELEMENTS_TREE",
      "VISIBLE_ELEMENTS_TREE_TRIMMED">>

\* line 325, _build_and_record_step_prompt: scrape, HTML_SCRAPE, the prompt,
\* the three element artifacts; the scraper may raise, and so may each
\* create_artifact (n artifacts are created before one raises)
build_and_record_step_prompt(p) ==
    /\ inv[p].pc = "build"
    /\ \E scraped \in Returns :
          IF scraped
          THEN \E n \in (IF env.artifact_faults THEN 0..Len(PromptArtifacts)
                                               ELSE {Len(PromptArtifacts)}) :
                 /\ artifacts' = artifacts \cup {PromptArtifacts[k] : k \in 1..n}
                 /\ inv' = [inv EXCEPT ![p].pc =
                               IF n = Len(PromptArtifacts) THEN "llm" ELSE "except"]
          ELSE /\ inv' = [inv EXCEPT ![p].pc = "except"]
               /\ UNCHANGED artifacts
    /\ UNCHANGED <<task, steps, browser, webhook, settings, env>>

\* lines 334-396: the actions of the LLM (or one COMPLETE without a
\* navigation goal); no action -> the step fails; WAIT pruning;
\* actions_and_results pre-populated with empty result lists
query_llm(p) ==
    /\ inv[p].pc = "llm"
    /\ \E answered \in Returns, response \in env.responses :
          LET actions == IF task.navigation_goal THEN response ELSE <<Complete>>
              pruned  == PruneWaits(actions)
          IN
          inv' = [inv EXCEPT ![p] =
                    IF task.navigation_goal /\ ~answered
                    THEN [@ EXCEPT !.pc = "except"]
                    ELSE IF Len(actions) = 0
                    THEN [@ EXCEPT !.pc = "fail", !.llm_actions = actions,
                                   !.actions = actions]
                    ELSE [@ EXCEPT !.pc = "loop", !.llm_actions = actions,
                                   !.actions = pruned,
                                   !.aar = [i \in 1..Len(pruned) |->
                                              [action |-> pruned[i], results |-> <<>>]],
                                   !.idx = 1, !.elems = {}]]
    /\ UNCHANGED <<task, steps, browser, artifacts, webhook, settings, env>>

\* the executor loop without the duplicate-element guard
execute_action_no_duplicate_guard(p) ==
    /\ inv[p].pc = "loop"
    /\ LET f == inv[p]
           done == f.idx > Len(f.actions)
           action == f.actions[f.idx]
       IN
       IF done
       THEN /\ inv' = [inv EXCEPT ![p].pc = "complete"]
            /\ UNCHANGED artifacts
       ELSE \E handled \in Returns, results \in env.results,
               has_page \in ArtifactReturns,
               recorded \in (IF env.artifact_faults
                              THEN SUBSET {"SCREENSHOT_ACTION", "HTML_ACTION"}
                              ELSE {{"SCREENSHOT_ACTION", "HTML_ACTION"}}) :
              IF ~handled
              THEN /\ inv' = [inv EXCEPT ![p].pc = "except"]
                   /\ UNCHANGED artifacts
              ELSE IF ~has_page
              THEN /\ inv' = [inv EXCEPT ![p].pc = "except",
                                          ![p].aar[f.idx].results = results]
                   /\ UNCHANGED artifacts
              ELSE /\ artifacts' = artifacts \cup recorded
                   /\ inv' = [inv EXCEPT ![p] =
                        [@ EXCEPT
                           !.aar = [@ EXCEPT ![f.idx].results = results],
                           !.elems = IF WebAction(action)
                                     THEN @ \cup {action.element_id} ELSE @,
                           !.idx = @ + 1,
                           !.pc = IF results # <<>> /\ results[Len(results)].success
                                  THEN IF results[Len(results)].javascript_triggered
                                       THEN "complete" ELSE "loop"
                                  ELSE "fail"]]
    /\ UNCHANGED <<task, steps, browser, webhook, settings, env>>

\* the executor loop that goes on after a result with javascript_triggered
execute_action_ignore_javascript(p) ==
    /\ inv[p].pc = "loop"
    /\ LET f == inv[p]
           done == f.idx > Len(f.actions)
           action == f.actions[f.idx]
       IN
       IF done \/ (WebAction(action) /\ action.element_id \in f.elems)
       THEN /\ inv' = [inv EXCEPT ![p].pc = "complete"]
            /\ UNCHANGED artifacts
       ELSE \E handled \in Returns, results \in env.results,
               has_page \in ArtifactReturns,
               recorded \in (IF env.artifact_faults
                              THEN SUBSET {"SCREENSHOT_ACTION", "HTML_ACTION"}
                              ELSE {{"SCREENSHOT_ACTION", "HTML_ACTION"}}) :
              IF ~handled
              THEN /\ inv' = [inv EXCEPT ![p].pc = "except"]
                   /\ UNCHANGED artifacts
              ELSE IF ~has_page
              THEN /\ inv' = [inv EXCEPT ![p].pc = "except",
                                          ![p].aar[f.idx].results = results]
                   /\ UNCHANGED artifacts
              ELSE /\ artifacts' = artifacts \cup recorded
                   /\ inv' = [inv EXCEPT ![p] =
                        [@ EXCEPT
                           !.aar = [@ EXCEPT ![f.idx].results = results],
                           !.elems = IF WebAction(action)
                                     THEN @ \cup {action.element_id} ELSE @,
                           !.idx = @ + 1,
                           !.pc = IF results # <<>> /\ results[Len(results)].success
                                  THEN "loop"
                                  ELSE "fail"]]
    /\ UNCHANGED <<task, steps, browser, webhook, settings, env>>

\* the executor loop that goes on with the next action after a failure
execute_action_continue_after_failure(p) ==
    /\ inv[p].pc = "loop"
    /\ LET f == inv[p]
           done == f.idx > Len(f.actions)
           action == f.actions[f.idx]
       IN
       IF done \/ (WebAction(action) /\ action.element_id \in f.elems)
       THEN /\ inv' = [inv EXCEPT ![p].pc = "complete"]
            /\ UNCHANGED artifacts
       ELSE \E handled \in Returns, results \in env.results,
               has_page \in ArtifactReturns,
               recorded \in (IF env.artifact_faults
                              THEN SUBSET {"SCREENSHOT_ACTION", "HTML_ACTION"}
                              ELSE {{"SCREENSHOT_ACTION", "HTML_ACTION"}}) :
              IF ~handled
              THEN /\ inv' = [inv EXCEPT ![p].pc = "except"]
                   /\ UNCHANGED artifacts
              ELSE IF ~has_page
              THEN /\ inv' = [inv EXCEPT ![p].pc = "except",
                                          ![p].aar[f.idx].results = results]
                   /\ UNCHANGED artifacts
              ELSE /\ artifacts' = artifacts \cup recorded
                   /\ inv' = [inv EXCEPT ![p] =
                        [@ EXCEPT
                           !.aar = [@ EXCEPT ![f.idx].results = results],
                           !.elems = IF WebAction(action)
                                     THEN @ \cup {action.element_id} ELSE @,
                           !.idx = @ + 1,
                           !.pc = IF results # <<>> /\ results[Len(results)].success
                                  THEN IF results[Len(results)].javascript_triggered
                                       THEN "complete" ELSE "loop"
                                  ELSE IF f.idx < Len(f.actions) THEN "loop"
                                  ELSE "fail"]]
    /\ UNCHANGED <<task, steps, browser, webhook, settings, env>>

\* lines 399-451, one turn of the executor loop: the duplicate-element
\* guard, the handler, record_artifacts_after_action (it raises without a
\* page; a failure of one of its captures is logged), the verdict on the
\* last result
execute_action(p) ==
    /\ inv[p].pc = "loop"
    /\ LET f == inv[p]
           done == f.idx > Len(f.actions)
           action == f.actions[f.idx]
       IN
       IF done \/ (WebAction(action) /\ action.element_id \in f.elems)
       THEN /\ inv' = [inv EXCEPT ![p].pc = "complete"]
            /\ UNCHANGED artifacts
       ELSE \E handled \in Returns, results \in env.results,
               has_page \in ArtifactReturns,
               recorded \in (IF env.artifact_faults
                              THEN SUBSET {"SCREENSHOT_ACTION", "HTML_ACTION"}
                              ELSE {{"SCREENSHOT_ACTION", "HTML_ACTION"}}) :
              IF ~handled
              THEN /\ inv' = [inv EXCEPT ![p].pc = "except"]
                   /\ UNCHANGED artifacts
              ELSE IF ~has_page
              THEN /\ inv' = [inv EXCEPT ![p].pc = "except",
                                          ![p].aar[f.idx].results = results]
                   /\ UNCHANGED artifacts
              ELSE /\ artifacts' = artifacts \cup recorded
                   /\ inv' = [inv EXCEPT ![p] =
                        [@ EXCEPT
                           !.aar = [@ EXCEPT ![f.idx].results = results],
                           !.elems = IF WebAction(action)
                                     THEN @ \cup {action.element_id} ELSE @,
                           !.idx = @ + 1,
                           !.pc = IF results # <<>> /\ results[Len(results)].success
                                  THEN IF results[Len(results)].javascript_triggered
                                       THEN "complete" ELSE "loop"
                                  ELSE "fail"]]
    /\ UNCHANGED <<task, steps, browser, webhook, settings, env>>

\* lines 358-369 and 448-451: the step is marked failed with the output so
\* far and agent_step returns
agent_step_failed(p) ==
    /\ inv[p].pc = "fail"
    /\ \E db_ok \in Returns :
          IF UpdateStepSucceeds(inv[p].step, "failed", db_ok)
          THEN /\ steps' = update_step(steps, inv[p].step, "failed",
                                       to_agent_step_output(inv[p].aar), None)
               /\ inv' = [inv EXCEPT ![p].pc = "errors",
                                      ![p].step = steps'[inv[p].step.step_id]]
          ELSE /\ inv' = [inv EXCEPT ![p].pc = "except"]
               /\ UNCHANGED steps
    /\ UNCHANGED <<task, browser, artifacts, webhook, settings, env>>

\* lines 453-465: the loop ended without a failure, the step is marked
\* completed and agent_step returns
agent_step_completed(p) ==
    /\ inv[p].pc = "complete"
    /\ \E db_ok \in Returns :
          IF UpdateStepSucceeds(inv[p].step, "completed", db_ok)
          THEN /\ steps' = update_step(steps, inv[p].step, "completed",
                                       to_agent_step_output(inv[p].aar), None)
               /\ inv' = [inv EXCEPT ![p].pc = "errors",
                                      ![p].step = steps'[inv[p].step.step_id]]
          ELSE /\ inv' = [inv EXCEPT ![p].pc = "except"]
               /\ UNCHANGED steps
    /\ UNCHANGED <<task, browser, artifacts, webhook, settings, env>>

\* lines 466-477, except Exception: the step is marked failed with the
\* output so far; an exception of this update_step leaves agent_step (and
\* execute_step, which catches FailedToSendWebhook only)
agent_step_except(p) ==
    /\ inv[p].pc = "except"
    /\ \E db_ok \in Returns :
          IF UpdateStepSucceeds(inv[p].step, "failed", db_ok)
          THEN /\ steps' = update_step(steps, inv[p].step, "failed",
                                       to_agent_step_output(inv[p].aar), None)
               /\ inv' = [inv EXCEPT ![p].pc = "errors",
                                      ![p].step = steps'[inv[p].step.step_id]]
          ELSE /\ inv' = [inv EXCEPT ![p] = Raised(@)]
               /\ UNCHANGED steps
    /\ UNCHANGED <<task, browser, artifacts, webhook, settings, env>>

----------------------------------------------------------------------------
(* the step policy *)

\* update_task_errors_from_detailed_output that writes the errors of the
\* step in place of the errors of the task
update_task_errors_replacing(p) ==
    /\ inv[p].pc = "errors"
    /\ LET task_errors == extract_errors(inv[p].aar) IN
       /\ task' = [task EXCEPT !.errors = task_errors]
       /\ inv' = [inv EXCEPT ![p].pc = "policy", ![p].task_status = task'.status,
                              ![p].task_errors = task'.errors]
    /\ UNCHANGED <<steps, browser, artifacts, webhook, settings, env>>

\* line 212, update_task_errors_from_detailed_output, lines 1047-1057: the
\* errors of the Task object in hand, extended by the errors of the step,
\* are written; the Task object in hand becomes the persisted row
update_task_errors_from_detailed_output(p) ==
    /\ inv[p].pc = "errors"
    /\ LET task_errors == inv[p].task_errors \o extract_errors(inv[p].aar) IN
       /\ task' = [task EXCEPT !.errors = task_errors]
       /\ inv' = [inv EXCEPT ![p].pc = "policy", ![p].task_status = task'.status,
                              ![p].task_errors = task'.errors]
    /\ UNCHANGED <<steps, browser, artifacts, webhook, settings, env>>

NextStepId(S) == Len(S) + 1

\* handle_failed_step comparing retry_index > MAX_RETRIES_PER_STEP
handle_failed_step_off_by_one(p) ==
    /\ inv[p].pc = "policy"
    /\ inv[p].step.status = "failed"
    /\ LET f == inv[p] IN
       IF f.step.retry_index > settings.MAX_RETRIES_PER_STEP
       THEN IF update_task_valid(f.task_status, "failed")
            THEN /\ task' = update_task(task, "failed", None,
                                        Some(MaxRetriesExceeded(settings.MAX_RETRIES_PER_STEP)))
                 /\ inv' = [inv EXCEPT ![p].pc = "respond",
                                        ![p].last_step = f.step.step_id]
                 /\ UNCHANGED steps
            ELSE /\ inv' = [inv EXCEPT ![p] = Raised(@)]
                 /\ UNCHANGED <<task, steps>>
       ELSE /\ Len(steps) < MaxStepRows
            /\ steps' = Append(steps, StepRow(NextStepId(steps), f.step.order,
                                              f.step.retry_index + 1))
            /\ inv' = [inv EXCEPT ![p] = Recurse(@, steps'[NextStepId(steps)])]
            /\ UNCHANGED task
    /\ UNCHANGED <<browser, artifacts, webhook, settings, env>>

\* execute_step that re-executes a retry only under EXECUTE_ALL_STEPS
handle_failed_step_gated(p) ==
    /\ inv[p].pc = "policy"
    /\ inv[p].step.status = "failed"
    /\ LET f == inv[p] IN
       IF f.step.retry_index >= settings.MAX_RETRIES_PER_STEP
       THEN IF update_task_valid(f.task_status, "failed")
            THEN /\ task' = update_task(task, "failed", None,
                                        Some(MaxRetriesExceeded(settings.MAX_RETRIES_PER_STEP)))
                 /\ inv' = [inv EXCEPT ![p].pc = "respond",
                                        ![p].last_step = f.step.step_id]
                 /\ UNCHANGED steps
            ELSE /\ inv' = [inv EXCEPT ![p] = Raised(@)]
                 /\ UNCHANGED <<task, steps>>
       ELSE /\ Len(steps) < MaxStepRows
            /\ steps' = Append(steps, StepRow(NextStepId(steps), f.step.order,
                                              f.step.retry_index + 1))
            /\ inv' = [inv EXCEPT ![p] =
                         IF settings.execute_all_steps
                         THEN Recurse(@, steps'[NextStepId(steps)])
                         ELSE Returned([@ EXCEPT !.next_step = NextStepId(steps)])]
            /\ UNCHANGED task
    /\ UNCHANGED <<browser, artifacts, webhook, settings, env>>

\* lines 216-229 with handle_failed_step, lines 924-954
handle_failed_step(p) ==
    /\ inv[p].pc = "policy"
    /\ inv[p].step.status = "failed"
    /\ LET f == inv[p] IN
       IF f.step.retry_index >= settings.MAX_RETRIES_PER_STEP
       THEN IF update_task_valid(f.task_status, "failed")
            THEN /\ task' = update_task(task, "failed", None,
                                        Some(MaxRetriesExceeded(settings.MAX_RETRIES_PER_STEP)))
                 /\ inv' = [inv EXCEPT ![p].pc = "respond",
                                        ![p].last_step = f.step.step_id]
                 /\ UNCHANGED steps
            ELSE /\ inv' = [inv EXCEPT ![p] = Raised(@)]
                 /\ UNCHANGED <<task, steps>>
       ELSE /\ Len(steps) < MaxStepRows
            /\ steps' = Append(steps, StepRow(NextStepId(steps), f.step.order,
                                              f.step.retry_index + 1))
            /\ inv' = [inv EXCEPT ![p] = Recurse(@, steps'[NextStepId(steps)])]
            /\ UNCHANGED task
    /\ UNCHANGED <<browser, artifacts, webhook, settings, env>>

\* lines 235-255 with "if is_task_completed and maybe_last_step": the
\* tri-state is tested for truth, so that False counts as None
CompletedStepBranch_truthy(is_task_completed, maybe_last_step, maybe_next_step) ==
    IF is_task_completed = Some(TRUE) /\ maybe_last_step # None THEN "last_step"
    ELSE IF maybe_next_step # None THEN "next_step"
    ELSE "neither"

\* lines 235-255: the branch execute_step takes on the triple
\* (is_task_completed, maybe_last_step, maybe_next_step) that
\* handle_completed_step returns; a Step object is truthy, None is not
CompletedStepBranch(is_task_completed, maybe_last_step, maybe_next_step) ==
    IF is_task_completed # None /\ maybe_last_step # None THEN "last_step"
    ELSE IF maybe_next_step # None THEN "next_step"
    ELSE "neither"

\* lines 235-288, the frame f after handle_completed_step returned: with a
\* last step the Responder is next (line 237); with a next step
\* execute_step recurses when EXECUTE_ALL_STEPS (line 271) and returns it
\* otherwise; with neither the error is logged (lines 248-255) and the
\* step is returned without a next step (line 288)
AfterCompletedStep(f, is_task_completed, maybe_last_step, maybe_next_step) ==
    LET branch == CompletedStepBranch(is_task_completed, maybe_last_step,
                                      maybe_next_step)
    IN  IF branch = "last_step"
        THEN [f EXCEPT !.pc = "respond", !.step = maybe_last_step[1],
                       !.last_step = maybe_last_step[1].step_id]
        ELSE IF branch = "next_step"
        THEN IF settings.execute_all_steps
             THEN Recurse(f, maybe_next_step[1])
             ELSE Returned([f EXCEPT !.next_step = maybe_next_step[1].step_id])
        ELSE Returned(f)

\* the terminal branches of handle_completed_step: the step is marked last,
\* then the task is updated
Conclude(p, status, extracted_information, failure_reason) ==
    LET f == inv[p] IN
    /\ steps' = update_step(steps, f.step, "none", None, Some(TRUE))
    /\ IF update_task_valid(f.task_status, status)
       THEN /\ task' = update_task(task, status, extracted_information, failure_reason)
            /\ inv' = [inv EXCEPT ![p] =
                         AfterCompletedStep(@, Some(status = "completed"),
                                            Some(steps'[f.step.step_id]), None)]
       ELSE /\ inv' = [inv EXCEPT ![p] = Raised(@)]
            /\ UNCHANGED task

\* handle_completed_step without the branch of a terminated step
completed_step_no_terminate_check(p) ==
    LET f == inv[p]
        max_steps_per_run == EffectiveMaxSteps(settings.max_steps_override,
                                               settings.org_max_steps_per_run,
                                               settings.MAX_STEPS_PER_RUN)
        marked == update_step(steps, f.step, "none", None, Some(TRUE))
    IN
    IF FALSE
    THEN Conclude(p, "terminated", None,
                  get_failure_reason_for_task(marked, Len(marked)))
    ELSE IF f.step.order + 1 >= max_steps_per_run
    THEN Conclude(p, "failed", None,
                  Some(MaxStepsExceeded(max_steps_per_run)))
    ELSE /\ Len(steps) < MaxStepRows
         /\ steps' = Append(steps, StepRow(NextStepId(steps), f.step.order + 1, 0))
         /\ inv' = [inv EXCEPT ![p] =
                      AfterCompletedStep(@, None, None,
                                         Some(steps'[NextStepId(steps)]))]
         /\ UNCHANGED task

\* handle_completed_step comparing step.order + 1 > max_steps_per_run
completed_step_ceiling_off_by_one(p) ==
    LET f == inv[p]
        max_steps_per_run == EffectiveMaxSteps(settings.max_steps_override,
                                               settings.org_max_steps_per_run,
                                               settings.MAX_STEPS_PER_RUN)
        marked == update_step(steps, f.step, "none", None, Some(TRUE))
    IN
    IF is_terminated(f.step)
    THEN Conclude(p, "terminated", None,
                  get_failure_reason_for_task(marked, Len(marked)))
    ELSE IF f.step.order + 1 > max_steps_per_run
    THEN Conclude(p, "failed", None,
                  Some(MaxStepsExceeded(max_steps_per_run)))
    ELSE /\ Len(steps) < MaxStepRows
         /\ steps' = Append(steps, StepRow(NextStepId(steps), f.step.order + 1, 0))
         /\ inv' = [inv EXCEPT ![p] =
                      AfterCompletedStep(@, None, None,
                                         Some(steps'[NextStepId(steps)]))]
         /\ UNCHANGED task

\* handle_completed_step that marks the step last also when it advances
completed_step_marks_last_on_advance(p) ==
    LET f == inv[p]
        max_steps_per_run == EffectiveMaxSteps(settings.max_steps_override,
                                               settings.org_max_steps_per_run,
                                               settings.MAX_STEPS_PER_RUN)
        marked == update_step(steps, f.step, "none", None, Some(TRUE))
    IN
    IF is_terminated(f.step)
    THEN Conclude(p, "terminated", None,
                  get_failure_reason_for_task(marked, Len(marked)))
    ELSE IF f.step.order + 1 >= max_steps_per_run
    THEN Conclude(p, "failed", None,
                  Some(MaxStepsExceeded(max_steps_per_run)))
    ELSE /\ Len(steps) < MaxStepRows
         /\ steps' = Append(marked, StepRow(NextStepId(steps), f.step.order + 1, 0))
         /\ inv' = [inv EXCEPT ![p] =
                      AfterCompletedStep(@, None, None,
                                         Some(steps'[NextStepId(steps)]))]
         /\ UNCHANGED task

\* handle_completed_step after the goal check, lines 972-1035: terminated,
\* max steps reached, or the next step (order + 1, retry 0); with the next
\* step execute_step recurses when EXECUTE_ALL_STEPS, else returns it
completed_step_not_goal(p) ==
    LET f == inv[p]
        max_steps_per_run == EffectiveMaxSteps(settings.max_steps_override,
                                               settings.org_max_steps_per_run,
                                               settings.MAX_STEPS_PER_RUN)
        marked == update_step(steps, f.step, "none", None, Some(TRUE))
    IN
    IF is_terminated(f.step)
    THEN Conclude(p, "terminated", None,
                  get_failure_reason_for_task(marked, Len(marked)))
    ELSE IF f.step.order + 1 >= max_steps_per_run
    THEN Conclude(p, "failed", None,
                  Some(MaxStepsExceeded(max_steps_per_run)))
    ELSE /\ Len(steps) < MaxStepRows
         /\ steps' = Append(steps, StepRow(NextStepId(steps), f.step.order + 1, 0))
         /\ inv' = [inv EXCEPT ![p] =
                      AfterCompletedStep(@, None, None,
                                         Some(steps'[NextStepId(steps)]))]
         /\ UNCHANGED task

\* handle_completed_step whose goal-achieved branch does not return: after
\* the task is completed the later branches are evaluated as well
handle_completed_step_no_return(p) ==
    /\ inv[p].pc \in {"policy", "policy_after_goal"}
    /\ inv[p].step.status # "failed"
    /\ LET f == inv[p] IN
       IF f.step.status # "completed"
       THEN /\ inv' = [inv EXCEPT ![p] = Returned(@)]
            /\ UNCHANGED <<task, steps>>
       ELSE IF f.pc = "policy" /\ is_goal_achieved(f.step)
       THEN /\ steps' = update_step(steps, f.step, "none", None, Some(TRUE))
            /\ task' = update_task(task, "completed",
                                   get_extracted_information_for_task(steps', Len(steps')), None)
            /\ inv' = [inv EXCEPT ![p].pc = "policy_after_goal"]
       ELSE completed_step_not_goal(p)
    /\ UNCHANGED <<browser, artifacts, webhook, settings, env>>

\* handle_completed_step that applies the step ceiling before the
\* goal-achieved and terminated checks
handle_completed_step_ceiling_first(p) ==
    /\ inv[p].pc = "policy"
    /\ inv[p].step.status # "failed"
    /\ LET f == inv[p]
           marked == update_step(steps, f.step, "none", None, Some(TRUE))
           max_steps_per_run == EffectiveMaxSteps(settings.max_steps_override,
                                                  settings.org_max_steps_per_run,
                                                  settings.MAX_STEPS_PER_RUN)
       IN
       IF f.step.status # "completed"
       THEN /\ inv' = [inv EXCEPT ![p] = Returned(@)]
            /\ UNCHANGED <<task, steps>>
       ELSE IF f.step.order + 1 >= max_steps_per_run
       THEN Conclude(p, "failed", None, Some(MaxStepsExceeded(max_steps_per_run)))
       ELSE IF is_goal_achieved(f.step)
       THEN Conclude(p, "completed",
                     get_extracted_information_for_task(marked, Len(marked)), None)
       ELSE completed_step_not_goal(p)
    /\ UNCHANGED <<browser, artifacts, webhook, settings, env>>

\* lines 230-288 with handle_completed_step, lines 956-1035; a step that is
\* neither failed nor completed is logged and returned
handle_completed_step(p) ==
    /\ inv[p].pc = "policy"
    /\ inv[p].step.status # "failed"
    /\ LET f == inv[p]
           marked == update_step(steps, f.step, "none", None, Some(TRUE))
       IN
       IF f.step.status # "completed"
       THEN /\ inv' = [inv EXCEPT ![p] = Returned(@)]
            /\ UNCHANGED <<task, steps>>
       ELSE IF is_goal_achieved(f.step)
       THEN Conclude(p, "completed",
                     get_extracted_information_for_task(marked, Len(marked)), None)
       ELSE completed_step_not_goal(p)
    /\ UNCHANGED <<browser, artifacts, webhook, settings, env>>

----------------------------------------------------------------------------
(* the responder *)

\* the final screenshot of send_task_response: taken and stored, the page
\* closed (TargetClosedError, logged), or another exception
FinalScreenshotOutcomes ==
    IF env.artifact_faults THEN {"taken", "target_closed", "raised"} ELSE {"taken"}

\* send_task_response without the return for a task of a workflow run
send_task_response_no_workflow_return(p) ==
    /\ inv[p].pc = "respond"
    /\ browser' = [browser EXCEPT !.task = "open"]
    /\ \E screenshot \in FinalScreenshotOutcomes :
          /\ artifacts' = IF screenshot = "taken"
                          THEN artifacts \cup {"SCREENSHOT_FINAL"} ELSE artifacts
          /\ inv' = [inv EXCEPT ![p] =
                       IF screenshot = "raised" THEN Raised(@)
                       ELSE [@ EXCEPT !.pc = "cleanup", !.waited = FALSE]]
    /\ UNCHANGED <<task, steps, webhook, settings, env>>

\* send_task_response, lines 690-726: the task is read again, the analytics
\* event, the final screenshot (only TargetClosedError is caught); a
\* workflow task stops here
send_task_response(p) ==
    /\ inv[p].pc = "respond"
    /\ browser' = [browser EXCEPT !.task = "open"]
    /\ \E screenshot \in FinalScreenshotOutcomes :
          /\ artifacts' = IF screenshot = "taken"
                          THEN artifacts \cup {"SCREENSHOT_FINAL"} ELSE artifacts
          /\ inv' = [inv EXCEPT ![p] =
                       IF screenshot = "raised" THEN Raised(@)
                       ELSE IF task.workflow_run_id THEN Returned(@)
                       ELSE [@ EXCEPT !.pc = "cleanup", !.waited = FALSE]]
    /\ UNCHANGED <<task, steps, webhook, settings, env>>

\* the captures of cleanup_browser_and_create_artifacts in their order:
\* the number of them that succeed before one raises
FinalArtifacts == <<"VIDEO", "HAR", "TRACE">>

\* line 728, cleanup_browser_and_create_artifacts: the browser of the task
\* is torn down (closed when close_browser_on_completion), then the video
\* is refreshed and HAR and TRACE are created; an exception of one of them
\* leaves send_task_response and execute_step
cleanup_browser_and_create_artifacts(p) ==
    /\ inv[p].pc = "cleanup"
    /\ browser' = [browser EXCEPT !.task =
                      IF inv[p].close_browser /\ @ = "open" THEN "closed" ELSE @]
    /\ IF browser.task = "none"
       THEN /\ UNCHANGED artifacts
            /\ inv' = [inv EXCEPT ![p].pc = "wait"]
       ELSE \E n \in (IF env.artifact_faults THEN 0..Len(FinalArtifacts)
                                            ELSE {Len(FinalArtifacts)}) :
              /\ artifacts' = artifacts \cup
                    ({FinalArtifacts[k] : k \in 1..n} \ {"VIDEO"})
              /\ inv' = [inv EXCEPT ![p] =
                           IF n = Len(FinalArtifacts) THEN [@ EXCEPT !.pc = "wait"]
                           ELSE Raised(@)]
    /\ UNCHANGED <<task, steps, webhook, settings, env>>

\* send_task_response without the upload barrier of line 731
wait_for_upload_skipped(p) ==
    /\ inv[p].pc = "wait"
    /\ inv' = [inv EXCEPT ![p].pc = "webhook"]
    /\ UNCHANGED <<task, steps, browser, artifacts, webhook, settings, env>>

\* line 731: wait_for_upload_aiotasks_for_task, the upload barrier
wait_for_upload(p) ==
    /\ inv[p].pc = "wait"
    /\ inv' = [inv EXCEPT ![p].pc = "webhook", ![p].waited = TRUE]
    /\ UNCHANGED <<task, steps, browser, artifacts, webhook, settings, env>>

\* what the POST may do: an OK answer, a non-OK answer with a JSON body, a
\* non-OK answer whose body is not JSON, a transport failure
WebhookOutcomes == {"ok", "non_ok", "non_ok_not_json", "transport_error"}

\* execute_task_webhook that sends again after a failed delivery
execute_task_webhook_resend(p) ==
    /\ inv[p].pc = "webhook"
    /\ IF inv[p].api_key /\ task.webhook_callback_url
       THEN \E outcome \in {"ok", "non_ok", "non_ok_not_json", "transport_error"} :
              /\ webhook' = [posts |-> webhook.posts + 1, last |-> outcome]
              /\ inv' = [inv EXCEPT ![p] = IF outcome = "ok" THEN Returned(@) ELSE @]
       ELSE /\ UNCHANGED webhook
            /\ inv' = [inv EXCEPT ![p] = Returned(@)]
    /\ UNCHANGED <<task, steps, browser, artifacts, settings, env>>

\* lines 804-823: whether the try block of the POST raises: requests.post
\* on a transport failure, resp.json() in the log call of a non-OK answer
\* whose body is not JSON; except Exception wraps it in FailedToSendWebhook
RaisesFailedToSendWebhook(outcome) ==
    outcome \in {"transport_error", "non_ok_not_json"}

\* execute_task_webhook whose FailedToSendWebhook leaves execute_step
execute_task_webhook_uncaught(p) ==
    /\ inv[p].pc = "webhook"
    /\ IF inv[p].api_key /\ task.webhook_callback_url
       THEN \E outcome \in {"ok", "non_ok", "non_ok_not_json", "transport_error"} :
              /\ webhook' = [posts |-> webhook.posts + 1, last |-> outcome]
              /\ inv' = [inv EXCEPT ![p] =
                           IF RaisesFailedToSendWebhook(outcome)
                           THEN Raised(@) ELSE Returned(@)]
       ELSE /\ UNCHANGED webhook
            /\ inv' = [inv EXCEPT ![p] = Returned(@)]
    /\ UNCHANGED <<task, steps, browser, artifacts, settings, env>>

\* execute_task_webhook, lines 735-823, and lines 290-299 of execute_step:
\* without api_key or webhook_callback_url nothing is sent; otherwise one
\* POST; a FailedToSendWebhook passes through send_task_response and is
\* caught by execute_step, which logs it and returns
execute_task_webhook(p) ==
    /\ inv[p].pc = "webhook"
    /\ IF inv[p].api_key /\ task.webhook_callback_url
       THEN \E outcome \in WebhookOutcomes :
              /\ webhook' = [posts |-> webhook.posts + 1, last |-> outcome]
              /\ inv' = [inv EXCEPT ![p] =
                           [Returned(@) EXCEPT !.failed_to_send_webhook =
                               RaisesFailedToSendWebhook(outcome)]]
       ELSE /\ UNCHANGED webhook
            /\ inv' = [inv EXCEPT ![p] = Returned(@)]
    /\ UNCHANGED <<task, steps, browser, artifacts, settings, env>>

----------------------------------------------------------------------------
(* Specifications *)

Step(p) ==
    \/ validate_step_execution(p)
    \/ initialize_execution_state(p)
    \/ agent_step_start(p)
    \/ build_and_record_step_prompt(p)
    \/ query_llm(p)
    \/ execute_action(p)
    \/ agent_step_failed(p)
    \/ agent_step_completed(p)
    \/ agent_step_except(p)
    \/ update_task_errors_from_detailed_output(p)
    \/ handle_failed_step(p)
    \/ handle_completed_step(p)
    \/ send_task_response(p)
    \/ cleanup_browser_and_create_artifacts(p)
    \/ wait_for_upload(p)
    \/ execute_task_webhook(p)

\* the callers serialize the invocations on a task
CallSerial ==
    /\ \A q \in Procs : inv[q].pc = "idle"
    /\ execute_step("p1", BOOLEAN, BOOLEAN)

Next ==
    \/ create_task
    \/ create_task_and_step_from_block
    \/ StartTask
    \/ CallSerial
    \/ Step("p1")

Spec == Init /\ [][Next]_vars

\* Two invocations on the same task interleave at their suspension points.
\* The task is a standalone running task with its first step; the LLM and
\* the handlers answer, from a smaller set.
InitConc ==
    /\ task = TaskRow("running", FALSE, TRUE, TRUE)
    /\ steps = <<StepRow(1, 0, 0)>>
    /\ inv = [p \in Procs |-> Idle]
    /\ browser = [task |-> "none", workflow_run |-> "none", video |-> {}]
    /\ artifacts = {}
    /\ webhook = [posts |-> 0, last |-> "none"]
    /\ settings = [execute_all_steps |-> FALSE,
                   MAX_RETRIES_PER_STEP |-> MAX_RETRIES_PER_STEP,
                   MAX_STEPS_PER_RUN |-> MAX_STEPS_PER_RUN,
                   org_max_steps_per_run |-> None,
                   max_steps_override |-> None]
    /\ env = [responses |-> {<<Click("e1")>>}, results |-> {<<Fail>>, <<Ok>>},
              faults |-> FALSE,
              artifact_faults |-> FALSE]

NextConc ==
    \E p \in Procs :
        \/ execute_step(p, {TRUE}, {TRUE})
        \/ Step(p)

SpecConc == InitConc /\ [][NextConc]_vars

\* One caller at a time, with an api_key, closing the browser at the end
CallWithKey ==
    /\ \A q \in Procs : inv[q].pc = "idle"
    /\ execute_step("p1", {TRUE}, {TRUE})

\* The retry policy under every retry ceiling: a standalone running task
\* with its first step; each action of the LLM fails or succeeds.
InitRetry ==
    /\ task = TaskRow("running", FALSE, TRUE, TRUE)
    /\ steps = <<StepRow(1, 0, 0)>>
    /\ inv = [p \in Procs |-> Idle]
    /\ browser = [task |-> "none", workflow_run |-> "none", video |-> {}]
    /\ artifacts = {}
    /\ webhook = [posts |-> 0, last |-> "none"]
    /\ settings \in [execute_all_steps : BOOLEAN,
                     MAX_RETRIES_PER_STEP : 0..2,
                     MAX_STEPS_PER_RUN : {MAX_STEPS_PER_RUN},
                     org_max_steps_per_run : {None},
                     max_steps_override : {None}]
    /\ env = [responses |-> {<<>>, <<Click("e1")>>}, results |-> {<<Fail>>, <<Ok>>},
              faults |-> FALSE,
              artifact_faults |-> FALSE]

NextRetry == CallWithKey \/ Step("p1")

SpecRetry == InitRetry /\ [][NextRetry]_vars

\* The completion policy under every configuration of the step ceiling: a
\* standalone running task with its first step; the LLM answers with a
\* CLICK, two COMPLETEs or two TERMINATEs, the handlers return a failure or
\* a success with data.
PolicyResponses ==
    { <<Click("e1")>>, <<Complete, Complete>>, <<Terminate("r1"), Terminate("r2")>> }

PolicyResults == { <<Fail>>, <<OkData("d1")>>, <<OkData("d2")>> }

InitPolicy ==
    /\ task = TaskRow("running", FALSE, TRUE, TRUE)
    /\ steps = <<StepRow(1, 0, 0)>>
    /\ inv = [p \in Procs |-> Idle]
    /\ browser = [task |-> "none", workflow_run |-> "none", video |-> {}]
    /\ artifacts = {}
    /\ webhook = [posts |-> 0, last |-> "none"]
    /\ settings \in [execute_all_steps : BOOLEAN,
                     MAX_RETRIES_PER_STEP : {MAX_RETRIES_PER_STEP},
                     MAX_STEPS_PER_RUN : 1..2,
                     org_max_steps_per_run : {None, Some(0), Some(1)},
                     max_steps_override : {None, Some(0), Some(2)}]
    /\ env = [responses |-> PolicyResponses, results |-> PolicyResults,
              faults |-> FALSE,
              artifact_faults |-> FALSE]

NextPolicy == CallWithKey \/ Step("p1")

SpecPolicy == InitPolicy /\ [][NextPolicy]_vars

\* The executor under every shape of the LLM answer: WAITs alone and among
\* other actions, web actions on the same and on different elements; the
\* handlers fail, succeed, or succeed with javascript_triggered.
ExecResponses ==
    { <<Wait>>, <<Wait, Wait>>, <<Wait, Click("e1")>>,
      <<Click("e1"), Wait, Click("e2")>>,
      <<Click("e1"), Click("e1"), Click("e2")>> }

ExecResults == { <<Fail>>, <<Ok>>, <<OkJs>> }

InitExec ==
    /\ task = TaskRow("running", FALSE, FALSE, TRUE)
    /\ steps = <<StepRow(1, 0, 0)>>
    /\ inv = [p \in Procs |-> Idle]
    /\ browser = [task |-> "none", workflow_run |-> "none", video |-> {}]
    /\ artifacts = {}
    /\ webhook = [posts |-> 0, last |-> "none"]
    /\ settings \in [execute_all_steps : {FALSE},
                     MAX_RETRIES_PER_STEP : {MAX_RETRIES_PER_STEP},
                     MAX_STEPS_PER_RUN : {MAX_STEPS_PER_RUN},
                     org_max_steps_per_run : {None},
                     max_steps_override : {None}]
    /\ env = [responses |-> ExecResponses, results |-> ExecResults,
              faults |-> FALSE,
              artifact_faults |-> FALSE]

NextExec == CallWithKey \/ Step("p1")

SpecExec == InitExec /\ [][NextExec]_vars

\* The engine when only the captures and creations of artifacts may fail:
\* the scraper, the LLM, the handlers and the persistence layer answer.
InitArtifacts ==
    /\ task = TaskRow("running", FALSE, TRUE, TRUE)
    /\ steps = <<StepRow(1, 0, 0)>>
    /\ inv = [p \in Procs |-> Idle]
    /\ browser = [task |-> "none", workflow_run |-> "none", video |-> {}]
    /\ artifacts = {}
    /\ webhook = [posts |-> 0, last |-> "none"]
    /\ settings \in [execute_all_steps : BOOLEAN,
                     MAX_RETRIES_PER_STEP : {MAX_RETRIES_PER_STEP},
                     MAX_STEPS_PER_RUN : {MAX_STEPS_PER_RUN},
                     org_max_steps_per_run : {None},
                     max_steps_override : {None}]
    /\ env = [responses |-> {<<Click("e1")>>, <<Complete>>},
              results |-> {<<Fail>>, <<Ok>>}, faults |-> FALSE,
              artifact_faults |-> TRUE]

NextArtifacts == CallWithKey \/ Step("p1")

SpecArtifacts == InitArtifacts /\ [][NextArtifacts]_vars

\* Chained retries and advances of a standalone task and of a task of a
\* workflow run: the outermost caller hands in the workflow run of the task
\* and close_browser_on_completion = FALSE; the decisive actions of the LLM
\* carry user-defined errors.
ChainResponses ==
    { <<Click("e2")>>, <<CompleteWith(<<"E1">>)>>,
      <<Click("e1"), TerminateWith("r1", <<"E2", "E3">>)>> }

InitChain ==
    /\ task \in {TaskRow("running", wf, TRUE, TRUE) : wf \in BOOLEAN}
    /\ steps = <<StepRow(1, 0, 0)>>
    /\ inv = [p \in Procs |-> Idle]
    /\ browser = [task |-> "none", workflow_run |-> "none", video |-> {}]
    /\ artifacts = {}
    /\ webhook = [posts |-> 0, last |-> "none"]
    /\ settings \in [execute_all_steps : BOOLEAN,
                     MAX_RETRIES_PER_STEP : {MAX_RETRIES_PER_STEP},
                     MAX_STEPS_PER_RUN : {MAX_STEPS_PER_RUN},
                     org_max_steps_per_run : {None},
                     max_steps_override : {None}]
    /\ env = [responses |-> ChainResponses, results |-> {<<Fail>>, <<Ok>>},
              faults |-> FALSE,
              artifact_faults |-> FALSE]

CallKeepingBrowser ==
    /\ \A q \in Procs : inv[q].pc = "idle"
    /\ execute_step("p1", {TRUE}, {FALSE})

NextChain == CallKeepingBrowser \/ Step("p1")

SpecChain == InitChain /\ [][NextChain]_vars

\* update_step on its own: the store holds one step of a task in a state
\* the engine leaves a step in; a caller hands the persisted step to
\* update_step with any combination of the four optional arguments.
StoredSteps ==
    LET out == to_agent_step_output(<<[action |-> Click("e1"), results |-> <<Ok>>]>>)
    IN  { [StepRow(1, 0, r) EXCEPT !.status = st] :
             r \in 0..1, st \in {"created", "running"} }
        \cup { [StepRow(1, 0, r) EXCEPT !.status = "failed", !.output = out] : r \in 0..1 }
        \cup { [StepRow(1, 0, r) EXCEPT !.status = "completed", !.output = out,
                                        !.is_last = l] : r \in 0..1, l \in BOOLEAN }

UpdateStepCalls ==
    [status : {"none"} \cup StepStatus,
     output : {None, to_agent_step_output(<<>>),
               to_agent_step_output(<<[action |-> Click("e1"), results |-> <<Ok>>]>>)},
     is_last : {None, Some(FALSE), Some(TRUE)},
     retry_index : {None, Some(0), Some(1)},
     update_comparison : {{}}, updates : {{}}]

InitUpdate ==
    /\ steps \in {<<row>> : row \in StoredSteps}
    /\ task = TaskRow(IF steps[1].is_last THEN "completed" ELSE "running",
                      FALSE, FALSE, TRUE)
    /\ inv = [p \in Procs |-> Idle]
    /\ browser = [task |-> "none", workflow_run |-> "none", video |-> {}]
    /\ artifacts = {}
    /\ webhook = [posts |-> 0, last |-> "none"]
    /\ settings = [execute_all_steps |-> FALSE,
                   MAX_RETRIES_PER_STEP |-> MAX_RETRIES_PER_STEP,
                   MAX_STEPS_PER_RUN |-> MAX_STEPS_PER_RUN,
                   org_max_steps_per_run |-> None,
                   max_steps_override |-> None]
    /\ env = [responses |-> {}, results |-> {}, faults |-> FALSE,
              artifact_faults |-> FALSE]

\* a caller of update_step: the persisted step and the arguments
CallUpdateStep(p) ==
    /\ inv[p].pc = "idle"
    /\ \E c \in UpdateStepCalls :
          inv' = [inv EXCEPT ![p] = [Idle EXCEPT !.pc = "update_step",
                                                 !.step = steps[1], !.call = c]]
    /\ UNCHANGED <<task, steps, browser, artifacts, webhook, settings, env>>

\* update_step, lines 861-895: the validation (it may raise), updates, the
\* logged diff, the write of updates to the store; the stored step is
\* returned
update_step_call(p) ==
    /\ inv[p].pc = "update_step"
    /\ LET f == inv[p]
           c == [f.call EXCEPT !.updates = UpdateKeys(f.call),
                               !.update_comparison = UpdateComparison(f.step, f.call)]
       IN
       IF update_step_valid(f.step, f.call.status)
       THEN /\ steps' = database_update_step(steps, f.step.step_id, c)
            /\ inv' = [inv EXCEPT ![p] =
                         [Idle EXCEPT !.result = "returned",
                                      !.step = steps'[f.step.step_id], !.call = c]]
       ELSE /\ inv' = [inv EXCEPT ![p] = [Idle EXCEPT !.result = "raised",
                                                      !.call = f.call]]
            /\ UNCHANGED steps
    /\ UNCHANGED <<task, browser, artifacts, webhook, settings, env>>

NextUpdate == CallUpdateStep("p1") \/ update_step_call("p1")

SpecUpdate == InitUpdate /\ [][NextUpdate]_vars

\* The verdict of the executor on the results of an action: the handlers
\* return no result, or two results of which the last counts.
VerdictResults == { <<>>, <<Ok, Fail>>, <<Fail, Ok>> }

InitVerdict ==
    /\ task = TaskRow("running", FALSE, FALSE, TRUE)
    /\ steps = <<StepRow(1, 0, 0)>>
    /\ inv = [p \in Procs |-> Idle]
    /\ browser = [task |-> "none", workflow_run |-> "none", video |-> {}]
    /\ artifacts = {}
    /\ webhook = [posts |-> 0, last |-> "none"]
    /\ settings \in [execute_all_steps : {FALSE},
                     MAX_RETRIES_PER_STEP : {MAX_RETRIES_PER_STEP},
                     MAX_STEPS_PER_RUN : {MAX_STEPS_PER_RUN},
                     org_max_steps_per_run : {None},
                     max_steps_override : {None}]
    /\ env = [responses |-> {<<Click("e1"), Click("e2")>>},
              results |-> VerdictResults, faults |-> FALSE,
              artifact_faults |-> FALSE]

NextVerdict == CallWithKey \/ Step("p1")

SpecVerdict == InitVerdict /\ [][NextVerdict]_vars

----------------------------------------------------------------------------
(* Properties *)

Terminal == {"completed", "failed", "terminated"}

RunningSteps == {i \in 1..Len(steps) : steps[i].status = "running"}

Active(p) == inv[p].pc # "idle"

\* the program counters inside agent_step
InAgentStep == {"agent_step", "build", "llm", "loop", "fail", "complete", "except"}

\* C1: in every state reachable by a sequence of execute_step calls, with
\* their retry and advance recursion, at most one step of the task is
\* running.
C1_AtMostOneRunningStep == Cardinality(RunningSteps) <= 1

\* C1 witness: a retry or a later step is running beside finished steps.
C1_Witness ==
    /\ Len(steps) >= 2
    /\ \E i \in 1..Len(steps) : steps[i].status = "running" /\ steps[i].retry_index = 1
    /\ \E i \in 1..Len(steps) : steps[i].status = "failed"

\* C2: when two execute_step invocations on the same task interleave, no
\* state has the steps of both invocations, two different steps, running at
\* once.
C2_NoTwoInvocationsRunning ==
    \A p, q \in Procs :
        (/\ Active(p) /\ Active(q)
         /\ inv[p].step.step_id # inv[q].step.step_id)
        => ~ (/\ steps[inv[p].step.step_id].status = "running"
              /\ steps[inv[q].step.step_id].status = "running")

\* C3: the persisted task status only moves created -> running ->
\* {completed, failed, terminated}; once terminal it never changes.
C3_TaskStatusMonotone ==
    [][task.status' # task.status =>
          \/ task.status = "none" /\ task.status' \in {"created", "running"}
          \/ task.status = "created" /\ task.status' = "running"
          \/ task.status = "running" /\ task.status' \in Terminal]_vars

\* C3 witness: the task is terminal and a further execute_step call on it
\* has been made and rejected.
C3_Witness ==
    /\ task.status \in Terminal
    /\ task.failure_reason # None
    /\ inv["p1"].pc = "idle" /\ inv["p1"].result = "raised"

\* C4: the persisted status of a step only moves created -> running ->
\* {completed, failed}; once completed or failed it never changes, also
\* when execute_step is called with an already failed step.
C4_StepStatusFrozen ==
    [][\A i \in 1..Len(steps) :
          steps'[i].status # steps[i].status =>
             \/ steps[i].status = "created" /\ steps'[i].status = "running"
             \/ steps[i].status = "running" /\ steps'[i].status \in {"completed", "failed"}]_vars

\* C4 witness: execute_step was called with an already failed step, passed
\* validate_step_execution, and update_step refused to mark it running.
C4_Witness ==
    \E p \in Procs :
        /\ inv[p].pc = "except"
        /\ inv[p].step.status = "failed"
        /\ steps[inv[p].step.step_id].status = "failed"

\* C5: no two steps of the task have the same (order, retry_index).
C5_UniqueOrderRetry ==
    \A i, j \in 1..Len(steps) :
        i # j => <<steps[i].order, steps[i].retry_index>> #
                 <<steps[j].order, steps[j].retry_index>>

\* C5 witness: a failed step whose retry already exists is handed to
\* execute_step again and reaches agent_step.
C5_Witness ==
    \E p \in Procs :
        /\ inv[p].pc = "except"
        /\ inv[p].step.status = "failed"
        /\ \E j \in 1..Len(steps) :
              /\ steps[j].order = inv[p].step.order
              /\ steps[j].retry_index = inv[p].step.retry_index + 1

\* C6: agent_step never raises: from no point inside agent_step does the
\* invocation end with an exception.
C6_AgentStepNeverRaises ==
    [][\A p \in Procs :
          inv[p].pc \in InAgentStep =>
             ~ (inv'[p].pc = "idle" /\ inv'[p].result = "raised")]_vars

\* C7: for a task with a workflow_run_id no webhook POST is ever attempted,
\* whatever api_key and webhook_callback_url are.
C7_NoWebhookForWorkflowTask == task.workflow_run_id => webhook.posts = 0

\* C7 witness: a workflow task with a webhook_callback_url is terminal, and
\* the responder ran in a call that carried an api_key.
C7_Witness ==
    /\ task.workflow_run_id /\ task.webhook_callback_url
    /\ task.status \in Terminal
    /\ "SCREENSHOT_FINAL" \in artifacts
    /\ inv["p1"].pc = "idle" /\ inv["p1"].result = "returned" /\ inv["p1"].api_key

\* C8: every webhook POST is issued by a finalization that has completed
\* the wait_for_upload barrier before.
C8_BarrierBeforePost ==
    [][webhook.posts' > webhook.posts =>
          \E p \in Procs : inv[p].pc = "webhook" /\ inv[p].waited]_vars

\* C8 witness: a POST was delivered.
C8_Witness == webhook.posts = 1 /\ webhook.last = "ok"

\* C9: at most one webhook POST is issued for the task; after a failed or
\* non-OK delivery nothing is sent again and no step is created or changed.
C9_AtMostOnePost ==
    [][/\ webhook.posts' <= 1
       /\ (webhook.posts >= 1 /\ webhook.last # "ok") =>
              (webhook' = webhook /\ steps' = steps)]_vars

\* C9 witness: the one POST failed and a further execute_step call has been
\* made and rejected.
C9_Witness ==
    /\ webhook.posts = 1
    /\ webhook.last \in {"non_ok", "non_ok_not_json", "transport_error"}
    /\ inv["p1"].pc = "idle" /\ inv["p1"].result = "raised"

\* C10: execute_step called on a completed, failed or terminated task fails
\* validation and changes nothing: no step or task field, no step created,
\* no browser acquired, no artifact created, no webhook sent.
C10_TerminalTaskCallHasNoEffect ==
    [][(task.status \in Terminal /\ \A p \in Procs : ~Active(p)) =>
          /\ UNCHANGED <<task, steps, browser, artifacts, webhook>>
          /\ \A p \in Procs :
                inv'[p] # inv[p] =>
                   /\ inv'[p].pc = "idle" /\ inv'[p].result = "raised"
                   /\ inv'[p].browser_state = "none"]_vars

\* C10 witness: a call on a terminal task has been rejected; the task has
\* a failed step, which validate_step_execution would admit by its status.
C10_Witness ==
    /\ task.status \in Terminal
    /\ \E i \in 1..Len(steps) : steps[i].status = "failed"
    /\ \A p \in Procs : ~Active(p)
    /\ inv["p1"].result = "raised"

\* C11: when a step ends failed with retry_index < MAX_RETRIES_PER_STEP,
\* exactly one step is created, with the same order and retry_index + 1,
\* and the task stays running; otherwise no step is created and the task
\* becomes failed with the reason "Max retries per step (N) exceeded".
C11_RetryOrFail ==
    [][\A p \in Procs :
          (/\ inv[p].pc = "policy" /\ inv[p].step.status = "failed"
           /\ inv'[p] # inv[p]) =>
             LET st == inv[p].step
                 N  == settings.MAX_RETRIES_PER_STEP
             IN  IF st.retry_index < N
                 THEN /\ Len(steps') = Len(steps) + 1
                      /\ SubSeq(steps', 1, Len(steps)) = steps
                      /\ steps'[Len(steps')].order = st.order
                      /\ steps'[Len(steps')].retry_index = st.retry_index + 1
                      /\ steps'[Len(steps')].status = "created"
                      /\ task' = task /\ task.status = "running"
                 ELSE /\ steps' = steps
                      /\ task'.status = "failed"
                      /\ task'.failure_reason = Some(MaxRetriesExceeded(N))]_vars

\* C11 witness: with MAX_RETRIES_PER_STEP = 2 the task has failed on the
\* third failed attempt of order 0.
C11_Witness ==
    /\ settings.MAX_RETRIES_PER_STEP = 2
    /\ Len(steps) = 3
    /\ \A i \in 1..3 : steps[i].status = "failed" /\ steps[i].order = 0
                        /\ steps[i].retry_index = i - 1
    /\ task.status = "failed"
    /\ task.failure_reason = Some(MaxRetriesExceeded(2))

\* C12: every step has retry_index <= MAX_RETRIES_PER_STEP, and no order of
\* the task has more than MAX_RETRIES_PER_STEP + 1 steps.
C12_RetryIndexBounded ==
    /\ \A i \in 1..Len(steps) : steps[i].retry_index <= settings.MAX_RETRIES_PER_STEP
    /\ \A o \in 0..MaxStepRows :
          Cardinality({i \in 1..Len(steps) : steps[i].order = o})
             <= settings.MAX_RETRIES_PER_STEP + 1

\* C12 witness: with MAX_RETRIES_PER_STEP = 1 both orders of the task have
\* used their retry and the task has failed on the last one.
C12_Witness ==
    /\ settings.MAX_RETRIES_PER_STEP = 1
    /\ Len(steps) = 4
    /\ steps[2].order = 0 /\ steps[2].retry_index = 1
    /\ steps[4].order = 1 /\ steps[4].retry_index = 1
    /\ steps[4].status = "failed"
    /\ task.status = "failed"

\* the last position of a set of (action, result) positions: the most
\* recent result
LastPosition(H) ==
    CHOOSE ij \in H : \A kl \in H :
        ij[1] > kl[1] \/ (ij[1] = kl[1] /\ ij[2] >= kl[2])

\* the invocation p is about to apply the policy to a completed step
AtPolicyCompleted(p) ==
    /\ inv[p].pc = "policy" /\ inv[p].step.status = "completed"
    /\ inv[p].step.output # None
    /\ inv'[p] # inv[p]

StepOutput(p) == inv[p].step.output[1].actions_and_results

\* C13: when a step ends completed and its output has a COMPLETE action
\* with a successful result, the step is marked is_last, the task becomes
\* completed with extracted_information equal to the data of the most
\* recent successful COMPLETE result, no step is created and the Responder
\* is invoked.
C13_GoalAchieved ==
    [][\A p \in Procs :
          (AtPolicyCompleted(p) /\ SuccessfulCompletes(StepOutput(p)) # {}) =>
             LET aar  == StepOutput(p)
                 last == LastPosition(SuccessfulCompletes(aar))
             IN  /\ steps'[inv[p].step.step_id].is_last
                 /\ Len(steps') = Len(steps)
                 /\ task'.status = "completed"
                 /\ task'.extracted_information = aar[last[1]].results[last[2]].data
                 /\ inv'[p].pc = "respond"]_vars

\* the positions of the TERMINATE actions of a step output
Terminates(aar) ==
    {k \in 1..Len(aar) : aar[k].action.action_type = "TERMINATE"}

\* C14: when a step ends completed, is not goal-achieved and its output has
\* a TERMINATE action, the step is marked is_last, the task becomes
\* terminated with the reasoning of that TERMINATE action as failure_reason,
\* and no step is created.
C14_Terminated ==
    [][\A p \in Procs :
          (/\ AtPolicyCompleted(p)
           /\ SuccessfulCompletes(StepOutput(p)) = {}
           /\ Terminates(StepOutput(p)) # {}) =>
             /\ steps'[inv[p].step.step_id].is_last
             /\ Len(steps') = Len(steps)
             /\ task'.status = "terminated"
             /\ \E k \in Terminates(StepOutput(p)) :
                   task'.failure_reason = Some(StepOutput(p)[k].action.reasoning)]_vars

\* C14 witness: the task is terminated by the second step, with the
\* reasoning of its TERMINATE action.
C14_Witness ==
    /\ task.status = "terminated"
    /\ task.failure_reason = Some([text |-> "r1"])
    /\ Len(steps) = 2
    /\ steps[2].is_last /\ steps[2].status = "completed"
    /\ Terminates(steps[2].output[1].actions_and_results) # {}

\* max_steps_per_run as handle_completed_step computes it from the
\* configuration
CodeCeiling ==
    EffectiveMaxSteps(settings.max_steps_override, settings.org_max_steps_per_run,
                      settings.MAX_STEPS_PER_RUN)

FirstDefined(override, org_max, settings_max) ==
    IF override # None THEN override[1]
    ELSE IF org_max # None THEN org_max[1]
    ELSE settings_max

\* C16: the effective step ceiling is the first defined of
\* context.max_steps_override, organization.max_steps_per_run and
\* settings.MAX_STEPS_PER_RUN, a defined 0 included: a completed step
\* without goal-achieved or terminate fails the task exactly when
\* step.order + 1 >= that value.
C16_FirstDefinedCeiling ==
    [][\A p \in Procs :
          (/\ AtPolicyCompleted(p)
           /\ SuccessfulCompletes(StepOutput(p)) = {}
           /\ Terminates(StepOutput(p)) = {}) =>
             (task'.status = "failed" <=>
                inv[p].step.order + 1 >=
                   FirstDefined(settings.max_steps_override,
                                settings.org_max_steps_per_run,
                                settings.MAX_STEPS_PER_RUN))]_vars

IsWait(a) == a.action_type = "WAIT"

NotWait(a) == a.action_type # "WAIT"

\* C17: the sequence handed to the executor loop is the answer of the LLM
\* without its WAITs (the others in their order) when the answer has a
\* WAIT and another action, and the answer unchanged otherwise.
C17_WaitPruning ==
    [][\A p \in Procs :
          (inv[p].pc = "llm" /\ inv'[p].pc = "loop") =>
             LET answer == inv'[p].llm_actions
                 mixed  == /\ \E i \in 1..Len(answer) : IsWait(answer[i])
                           /\ \E i \in 1..Len(answer) : NotWait(answer[i])
             IN  /\ inv'[p].actions = IF mixed THEN SelectSeq(answer, NotWait)
                                                ELSE answer
                 /\ Len(inv'[p].aar) = Len(inv'[p].actions)
                 /\ \A i \in 1..Len(inv'[p].aar) :
                       inv'[p].aar[i].action = inv'[p].actions[i]]_vars

\* C17 witness: two answers have been dispatched: CLICK, WAIT, CLICK as its
\* two CLICKs, and WAIT, WAIT as it is.
C17_Witness ==
    /\ Len(steps) >= 2
    /\ steps[1].output # None /\ steps[2].output # None
    /\ LET a1 == steps[1].output[1].actions_and_results
           a2 == steps[2].output[1].actions_and_results
       IN  /\ Len(a1) = 2 /\ a1[1].action = Click("e1") /\ a1[2].action = Click("e2")
           /\ a1[2].results # <<>>
           /\ Len(a2) = 2 /\ a2[1].action = Wait /\ a2[2].action = Wait
           /\ a2[2].results # <<>>

\* the action at position k of a list targets an element that an earlier
\* web action of the list targets
TargetsEarlierElement(actions, k) ==
    /\ WebAction(actions[k])
    /\ \E j \in 1..(k - 1) :
          WebAction(actions[j]) /\ actions[j].element_id = actions[k].element_id

\* agent_step marks the step completed with the results gathered so far
EndsCompletedWith(p) ==
    /\ steps'[inv[p].step.step_id].status = "completed"
    /\ steps'[inv[p].step.step_id].output = Some([actions_and_results |-> inv[p].aar])

\* C18: when a web action of a step targets the element_id of an earlier
\* web action of the step, it and every action after it are not dispatched:
\* the loop ends, their entries in actions_and_results keep empty results,
\* and the step is marked completed on the results of the actions that ran.
C18_DuplicateElementGuard ==
    [][\A p \in Procs :
          /\ (/\ inv[p].pc = "loop" /\ inv[p].idx <= Len(inv[p].actions)
               /\ TargetsEarlierElement(inv[p].actions, inv[p].idx)
               /\ inv'[p] # inv[p]) =>
                 /\ inv'[p].pc = "complete"
                 /\ inv'[p].aar = inv[p].aar
                 /\ \A k \in inv[p].idx..Len(inv[p].aar) : inv[p].aar[k].results = <<>>
                 /\ \A k \in 1..(inv[p].idx - 1) :
                       LET r == inv[p].aar[k].results IN r # <<>> /\ r[Len(r)].success
                 /\ artifacts' = artifacts
          /\ (inv[p].pc = "complete" /\ inv'[p] # inv[p]) => EndsCompletedWith(p)]_vars

\* C18 witness: a step is completed whose second CLICK targets the element
\* of the first: only the first has results.
C18_Witness ==
    \E i \in 1..Len(steps) :
        /\ steps[i].status = "completed" /\ steps[i].output # None
        /\ LET aar == steps[i].output[1].actions_and_results IN
           /\ Len(aar) = 3
           /\ aar[1].action = Click("e1") /\ aar[2].action = Click("e1")
           /\ aar[1].results = <<Ok>>
           /\ aar[2].results = <<>> /\ aar[3].results = <<>>

ArtifactPoints == {"init", "build", "loop", "respond", "cleanup"}

\* C20: a failure while capturing or creating an artifact is swallowed: when
\* nothing else fails, no step goes to the exception handler of agent_step
\* (which marks it failed) and neither execute_step nor the Responder ends
\* with an exception at a point where artifacts are recorded.
C20_ArtifactFailuresSwallowed ==
    [][\A p \in Procs :
          inv[p].pc \in ArtifactPoints =>
             /\ inv'[p].pc # "except"
             /\ ~ (inv'[p].pc = "idle" /\ inv'[p].result = "raised")]_vars

\* the invocation p issues the webhook POST in this step
Posts(p) ==
    /\ inv[p].pc = "webhook"
    /\ webhook'.posts = webhook.posts + 1

\* C21: when the webhook endpoint answers with a non-OK HTTP status,
\* whatever the body of the answer is, the answer is only logged: no
\* FailedToSendWebhook (and no other exception) is raised by the Responder
\* and the persisted task is unchanged.
C21_NonOkOnlyLogged ==
    [][\A p \in Procs :
          (Posts(p) /\ webhook'.last \in {"non_ok", "non_ok_not_json"}) =>
             /\ ~ inv'[p].failed_to_send_webhook
             /\ inv'[p].result = "returned"
             /\ task' = task]_vars

\* C22: when the webhook POST fails at the transport level,
\* FailedToSendWebhook is raised and surfaces to the caller of execute_step.
C22_TransportFailureSurfaces ==
    [][\A p \in Procs :
          (Posts(p) /\ webhook'.last = "transport_error") =>
             inv'[p].pc = "idle" /\ inv'[p].result = "raised"]_vars

\* C22 as amended: when the webhook POST fails at the transport level,
\* FailedToSendWebhook is raised by execute_task_webhook and reaches
\* execute_step, which catches it and returns (step, detailed_output,
\* next_step) to its caller; nothing persisted changes.
C22_TransportFailureCaught ==
    [][\A p \in Procs :
          (Posts(p) /\ webhook'.last = "transport_error") =>
             /\ inv'[p].failed_to_send_webhook
             /\ inv'[p].pc = "idle" /\ inv'[p].result = "returned"
             /\ inv'[p].next_step = 0
             /\ task' = task /\ steps' = steps]_vars

\* C22 witness: the POST of a terminal task failed at the transport level
\* and execute_step has returned after catching FailedToSendWebhook.
C22_Witness ==
    /\ webhook.posts = 1 /\ webhook.last = "transport_error"
    /\ task.status \in Terminal
    /\ inv["p1"].pc = "idle" /\ inv["p1"].result = "returned"
    /\ inv["p1"].failed_to_send_webhook

StepErrors(row) ==
    IF row.output = None THEN <<>>
    ELSE extract_errors(row.output[1].actions_and_results)

\* C24: task.errors is append-only across steps: the merge after an executed
\* step leaves the persisted task.errors equal to its previous value
\* followed by the user-defined errors of that step in order, it does not
\* change the status of the task, and nothing else changes task.errors.
C24_ErrorsAppendOnly ==
    [][/\ \A p \in Procs :
             (inv[p].pc = "errors" /\ inv'[p] # inv[p]) =>
                /\ task'.errors = task.errors \o StepErrors(steps[inv[p].step.step_id])
                /\ task'.status = task.status
       /\ (\A p \in Procs : inv[p].pc # "errors") => task'.errors = task.errors]_vars

\* C24 witness: a first step reported E1, its retry reported E2 and E3, and
\* the task holds the three in that order.
C24_Witness ==
    /\ Len(steps) >= 2
    /\ StepErrors(steps[1]) = <<"E1">>
    /\ StepErrors(steps[2]) = <<"E2", "E3">>
    /\ task.errors = <<"E1", "E2", "E3">>
    /\ \E p \in Procs : inv[p].pc = "policy" /\ inv[p].step.step_id = 2

\* every argument given to the call equals the field of the step in hand
ValuesEqualCurrent(step, c) ==
    /\ c.status # "none" => c.status = step.status
    /\ c.output # None => c.output = step.output
    /\ c.is_last # None => c.is_last[1] = step.is_last
    /\ c.retry_index # None => c.retry_index[1] = step.retry_index

\* C25: update_step called with values equal to the current field values of
\* the step is a no-op: the logged diff is empty and no field is written to
\* the store.
C25_UnchangedUpdateIsNoOp ==
    [][\A p \in Procs :
          (/\ inv[p].pc = "update_step"
           /\ ValuesEqualCurrent(inv[p].step, inv[p].call)
           /\ inv'[p] # inv[p]) =>
             /\ inv'[p].call.update_comparison = {}
             /\ inv'[p].call.updates = {}
             /\ steps' = steps]_vars

\* the points of send_task_response after its return for a workflow task
AfterWorkflowReturn == {"cleanup", "wait", "webhook"}

\* C26: when a task with workflow_run_id reaches a terminal status, the
\* Responder stops after the analytics event and the attempt of the final
\* screenshot: no browser teardown, no video, HAR or trace capture, no
\* wait_for_upload and no external HTTP request.
C26_WorkflowResponderStopsEarly ==
    [][/\ \A p \in Procs :
             (inv[p].pc = "respond" /\ task.workflow_run_id /\ inv'[p] # inv[p]) =>
                /\ task.status \in Terminal
                /\ inv'[p].pc = "idle" /\ inv'[p].result = "returned"
                /\ artifacts' \subseteq artifacts \cup {"SCREENSHOT_FINAL"}
                /\ browser'.task # "closed"
                /\ browser'.workflow_run = browser.workflow_run
                /\ browser'.video = browser.video
                /\ webhook' = webhook
       /\ task.workflow_run_id =>
             /\ \A p \in Procs : inv'[p].pc \notin AfterWorkflowReturn
             /\ artifacts' \cap {"HAR", "TRACE"} = {}
             /\ "closed" \notin {browser'.task, browser'.workflow_run}
             /\ webhook'.posts = 0]_vars

\* C26 witness: the Responder has run for a terminated task of a workflow
\* run: the final screenshot exists, the browsers are open, nothing was
\* posted.
C26_Witness ==
    /\ task.workflow_run_id /\ task.status = "terminated"
    /\ "SCREENSHOT_FINAL" \in artifacts /\ "HAR" \notin artifacts
    /\ browser.task = "open" /\ browser.workflow_run = "open"
    /\ webhook.posts = 0
    /\ inv["p1"].pc = "idle" /\ inv["p1"].result = "returned"

\* the recursive call of execute_step on the step just created
RecursesOn(p, new) ==
    /\ inv'[p].pc = "validate" /\ inv'[p].step = new
    /\ inv'[p].api_key = inv[p].api_key

\* C27: a failed step with retries left is re-executed inside the same
\* execute_step call whatever EXECUTE_ALL_STEPS is; an advance to the next
\* order is executed inside the same call only when EXECUTE_ALL_STEPS is
\* true, otherwise execute_step returns (the completed step, its output,
\* the next step in status created) and the task is still running.
C27_StepChaining ==
    [][\A p \in Procs :
          (/\ inv[p].pc = "policy" /\ inv'[p] # inv[p]
           /\ Len(steps') = Len(steps) + 1) =>
             LET st  == inv[p].step
                 new == steps'[Len(steps')]
             IN  IF st.status = "failed"
                 THEN /\ new.order = st.order /\ new.retry_index = st.retry_index + 1
                      /\ RecursesOn(p, new)
                 ELSE /\ st.status = "completed"
                      /\ new.order = st.order + 1 /\ new.retry_index = 0
                      /\ IF settings.execute_all_steps
                         THEN RecursesOn(p, new)
                         ELSE /\ inv'[p].pc = "idle" /\ inv'[p].result = "returned"
                              /\ inv'[p].step = steps'[st.step_id]
                              /\ inv'[p].step.status = "completed"
                              /\ inv'[p].step.output = Some([actions_and_results |-> inv'[p].aar])
                              /\ inv'[p].next_step = new.step_id
                              /\ new.status = "created"
                              /\ task'.status = "running"]_vars

\* C27 witness: without EXECUTE_ALL_STEPS, execute_step has returned the
\* next step of order 1 after the retry of order 0 completed.
C27_Witness ==
    /\ ~ settings.execute_all_steps
    /\ Len(steps) = 3
    /\ steps[1].status = "failed" /\ steps[1].retry_index = 0
    /\ steps[2].status = "completed" /\ steps[2].order = 0 /\ steps[2].retry_index = 1
    /\ steps[3].status = "created" /\ steps[3].order = 1
    /\ inv["p1"].pc = "idle" /\ inv["p1"].result = "returned"
    /\ inv["p1"].next_step = 3 /\ inv["p1"].step = steps[2]
    /\ task.status = "running"

\* C28: for a non-workflow task, the browser teardown at the end of the task
\* is invoked with the close_browser_on_completion given to the outermost
\* execute_step call, however many retries or advances were chained before
\* the terminal step: the outermost calls all giving FALSE, the teardown is
\* never invoked with TRUE and the browser is never closed.
C28_TeardownKeepsCallerChoice ==
    ~ task.workflow_run_id =>
        /\ \A p \in Procs : inv[p].pc = "cleanup" => ~ inv[p].close_browser
        /\ browser.task # "closed"

\* C29: every step of a task of a workflow run, the retried and advanced
\* steps chained inside one execute_step call included, runs on the
\* BrowserState of its workflow run, never on a BrowserState of the task.
C29_WorkflowStepsUseWorkflowBrowser ==
    task.workflow_run_id =>
        \A p \in Procs :
            inv[p].pc \in InAgentStep => inv[p].browser_state = "workflow_run"

\* the verdict of lines 416 and 435 on the results of an action: it failed
LastResultFails(r) == r = <<>> \/ ~ r[Len(r)].success

\* C30: in the executor loop, the first dispatched action whose last result
\* is not successful, or whose result list is empty, marks the step failed
\* with the accumulated output and ends the step at once: no later action is
\* dispatched, and the post-action artifacts of the failing action are
\* captured before the step is marked failed.
C30_FirstFailureEndsStep ==
    [][\A p \in Procs :
          /\ (inv[p].pc = "loop" /\ inv'[p].idx = inv[p].idx + 1) =>
                LET r == inv'[p].aar[inv[p].idx].results IN
                /\ inv'[p].pc = "fail" <=> LastResultFails(r)
                /\ {"SCREENSHOT_ACTION", "HTML_ACTION"} \subseteq artifacts'
                /\ steps' = steps
                /\ steps[inv[p].step.step_id].status = "running"
          /\ (inv[p].pc = "fail" /\ inv[p].actions # <<>> /\ inv'[p] # inv[p]) =>
                LET aar == inv[p].aar
                    k   == inv[p].idx - 1
                IN  /\ LastResultFails(aar[k].results)
                    /\ \A j \in 1..(k - 1) : ~ LastResultFails(aar[j].results)
                    /\ \A j \in (k + 1)..Len(aar) : aar[j].results = <<>>
                    /\ steps'[inv[p].step.step_id].status = "failed"
                    /\ steps'[inv[p].step.step_id].output = Some([actions_and_results |-> aar])
                    /\ inv'[p].pc = "errors"
                    /\ artifacts' = artifacts]_vars

\* C30 witness: a step is failed on its first of two actions, whose last
\* result failed after a successful one; the second action has no result
\* and the artifacts of the first were captured.
C30_Witness ==
    /\ {"SCREENSHOT_ACTION", "HTML_ACTION"} \subseteq artifacts
    /\ steps[1].status = "failed" /\ steps[1].output # None
    /\ LET aar == steps[1].output[1].actions_and_results IN
       /\ Len(aar) = 2
       /\ aar[1].action = Click("e1") /\ aar[1].results = <<Ok, Fail>>
       /\ aar[2].action = Click("e2") /\ aar[2].results = <<>>

----------------------------------------------------------------------------
(* A whole run of the task *)

\* The run of a task under every small configuration of the two ceilings:
\* a standalone running task with its first step; the LLM answers with no
\* action, a CLICK, a COMPLETE, a TERMINATE or both, the handlers fail or
\* succeed, and every collaborator call returns.
RunResponses ==
    { <<>>, <<Click("e1")>>, <<Complete>>, <<Terminate("r1")>>,
      <<Complete, Terminate("r1")>>, <<Terminate("r1"), Complete>> }

InitRun ==
    /\ task = TaskRow("running", FALSE, TRUE, TRUE)
    /\ steps = <<StepRow(1, 0, 0)>>
    /\ inv = [p \in Procs |-> Idle]
    /\ browser = [task |-> "none", workflow_run |-> "none", video |-> {}]
    /\ artifacts = {}
    /\ webhook = [posts |-> 0, last |-> "none"]
    /\ settings \in [execute_all_steps : BOOLEAN,
                     MAX_RETRIES_PER_STEP : 0..1,
                     MAX_STEPS_PER_RUN : 1..2,
                     org_max_steps_per_run : {None, Some(0), Some(1)},
                     max_steps_override : {None}]
    /\ env = [responses |-> RunResponses, results |-> {<<Fail>>, <<Ok>>},
              faults |-> FALSE,
              artifact_faults |-> FALSE]

NextRun == CallWithKey \/ Step("p1")

\* An invocation of execute_step is a coroutine on the event loop: while
\* its awaited calls return it is resumed, so each of its steps that stays
\* enabled is eventually taken.
SpecRun == InitRun /\ [][NextRun]_vars /\ WF_vars(Step("p1"))

\* the largest number of steps one run may execute
RunStepBudget == CodeCeiling * (settings.MAX_RETRIES_PER_STEP + 1)

\* the steps of the task that have been executed (marked running at least)
ExecutedSteps == {i \in 1..Len(steps) : steps[i].status # "created"}

C32_PolicyPriority ==
    [][\A p \in Procs :
          AtPolicyCompleted(p) =>
             LET aar == StepOutput(p)
                 goal == SuccessfulCompletes(aar) # {}
                 term == Terminates(aar) # {}
             IN  /\ goal => task'.status = "completed"
                 /\ (~goal /\ term) => task'.status = "terminated"
                 /\ (goal \/ term) =>
                       /\ task'.status # "failed"
                       /\ task'.failure_reason # Some(MaxStepsExceeded(CodeCeiling))
                 /\ task'.status = "failed" =>
                       (~goal /\ ~term /\ inv[p].step.order + 1 >= CodeCeiling)]_vars

\* C32 witness: the step at the last order below the ceiling holds a
\* TERMINATE action and a successful COMPLETE, and the task is completed.
C32_Witness ==
    /\ task.status = "completed"
    /\ \E i \in 1..Len(steps) :
          /\ steps[i].order = CodeCeiling - 1
          /\ steps[i].status = "completed" /\ steps[i].is_last
          /\ SuccessfulCompletes(steps[i].output[1].actions_and_results) # {}
          /\ Terminates(steps[i].output[1].actions_and_results) # {}

\* C33: when execute_step applies the policy to a completed step, either
\* the task becomes terminal and the Responder is next, or a step is
\* created with order + 1 and retry_index 0 and becomes the next step of
\* the invocation (executed by the recursive call or returned); the branch
\* with neither is never taken.
C33_CompletedStepHasOutcome ==
    [][\A p \in Procs :
          AtPolicyCompleted(p) =>
             LET step == inv[p].step
                 new  == Len(steps) + 1
             IN  \/ /\ task'.status \in Terminal
                    /\ inv'[p].pc = "respond"
                    /\ Len(steps') = Len(steps)
                 \/ /\ task'.status = "running"
                    /\ Len(steps') = new
                    /\ steps'[new] = StepRow(new, step.order + 1, 0)
                    /\ \/ inv'[p].pc = "validate" /\ inv'[p].step = steps'[new]
                       \/ inv'[p].result = "returned" /\ inv'[p].next_step = new]_vars

\* C33 witness: a call has returned a completed step that did not end the
\* task, together with the next step it created.
C33_Witness ==
    \E p \in Procs :
       /\ inv[p].result = "returned"
       /\ inv[p].step.status = "completed"
       /\ task.status = "running"
       /\ inv[p].next_step = Len(steps)
       /\ steps[Len(steps)] = StepRow(Len(steps), inv[p].step.order + 1, 0)

----------------------------------------------------------------------------
(* TERMINATE actions behind an early stop of the executor loop *)

\* The executor loop with a TERMINATE action behind two CLICKs on the same
\* element or behind one CLICK, and a CLICK alone: a standalone running
\* task with its first step; the handlers fail, succeed, or succeed and
\* report triggered javascript.
GuardResponses ==
    { <<Click("e1"), Click("e1"), Terminate("r1")>>,
      <<Click("e1"), Terminate("r1")>>,
      <<Click("e2")>> }

InitGuard ==
    /\ task = TaskRow("running", FALSE, TRUE, TRUE)
    /\ steps = <<StepRow(1, 0, 0)>>
    /\ inv = [p \in Procs |-> Idle]
    /\ browser = [task |-> "none", workflow_run |-> "none", video |-> {}]
    /\ artifacts = {}
    /\ webhook = [posts |-> 0, last |-> "none"]
    /\ settings \in [execute_all_steps : BOOLEAN,
                     MAX_RETRIES_PER_STEP : {MAX_RETRIES_PER_STEP},
                     MAX_STEPS_PER_RUN : {MAX_STEPS_PER_RUN},
                     org_max_steps_per_run : {None},
                     max_steps_override : {None}]
    /\ env = [responses |-> GuardResponses,
              results |-> {<<Fail>>, <<Ok>>, <<OkJs>>},
              faults |-> FALSE,
              artifact_faults |-> FALSE]

NextGuard == CallWithKey \/ Step("p1")

SpecGuard == InitGuard /\ [][NextGuard]_vars

\* the TERMINATE actions of a step output that were handed to the action
\* handler: their result list is not empty
DispatchedTerminates(aar) == {k \in Terminates(aar) : aar[k].results # <<>>}

\* C34: a task is terminated only when a TERMINATE action was dispatched to
\* the action handler in its last step; a TERMINATE action that the
\* executor loop left with an empty result list does not terminate it.
C34_TerminatedOnlyWhenDispatched ==
    task.status = "terminated" =>
       \E i \in 1..Len(steps) :
          /\ steps[i].is_last
          /\ steps[i].output # None
          /\ DispatchedTerminates(steps[i].output[1].actions_and_results) # {}

====
